---- MODULE Spec2Model ----
(***************************************************************************)
(* Model of the two message-driven stores of nuxt-starter: the cart store  *)
(* (layers/cart) with its localStorage persistence effect, and the         *)
(* products store with its fetch effect.                                   *)
(*                                                                         *)
(* Numbers.  A cart quantity is a JavaScript number (cartModel.ts:18), so  *)
(* a caller can pass 1.5.  The model writes the number x as the integer    *)
(* Scale * x; with Scale = 2 the representable numbers are the multiples   *)
(* of one half.  One is the number 1.  Prices and stock are integers.      *)
(***************************************************************************)
EXTENDS Integers, Sequences, FiniteSets, TLC

\* ------------------------------------------------------------------ bounds
\* Largest whole quantity a caller passes or builds up by adding.
MaxQty == 2
\* Calls of the fetch effect in one behaviour.
MaxFetches == 2
\* Largest subtotal, in cents, handed to calculateTax on its own.
MaxSubtotal == 7000
\* Longest product array handed to filterProducts or sortProducts on its own.
MaxCatalog == 3

\* ----------------------------------------------------------------- numbers
Scale == 2
One == Scale
IsInteger(x) == x % Scale = 0

\* ---------------------------------------------------------------- products
Categories == {"electronics", "clothing", "books", "home", "sports"}

\* An optional field is a sequence: <<>> when undefined, <<v>> when set.
\* A rating is written in tenths (45 is 4.5).
Product(id, name, price, category, stock, rating) ==
    [id |-> id, name |-> name, description |-> name, price |-> price,
     category |-> category, image |-> "https://img/" \o id, stock |-> stock,
     rating |-> rating]

P1 == Product("1", "Headphones", 1999, "electronics", 5, <<45>>)
\* The same identifier seen later with another price.
P1b == Product("1", "Headphones", 2499, "electronics", 0, <<45>>)
P2 == Product("2", "Novel", 2999, "books", 0, <<>>)
\* Not a valid product: negative price.
PBad == Product("3", "Broken", -1, "home", 1, <<>>)

P4 == Product("4", "Lamp", 4500, "home", 3, <<38>>)

\* The price of product 1, no rating, and a description that is not the name.
P5 == [Product("5", "Notebook", 1999, "books", 2, <<>>)
        EXCEPT !.description = "A novel idea"]

\* A product rated, with the lowest rating there is.
P6 == Product("6", "Cable", 500, "electronics", 9, <<0>>)

CartProducts == {P1, P1b, P2}
ProductIds == {"1", "2"}

ProductSchema(p) ==
    /\ p.id # ""
    /\ p.name # ""
    /\ p.price \in Nat
    /\ p.category \in Categories
    /\ p.stock \in Nat
    /\ \A i \in 1..Len(p.rating) : p.rating[i] >= 0 /\ p.rating[i] <= 50

\* ------------------------------------------------------------ cart reducer
initialModel == [items |-> <<>>]

HasItem(items, productId) ==
    \E i \in 1..Len(items) : items[i].product.id = productId

\* Array.prototype.find: the first item with the identifier.
FindItem(items, productId) ==
    items[CHOOSE i \in 1..Len(items) :
            /\ items[i].product.id = productId
            /\ \A j \in 1..(i - 1) : items[j].product.id # productId]

\* addItemToCart that looks at the stock: nothing is added or raised past
\* the units in stock.
addItemToCart_StockCapped(model, product) ==
    IF HasItem(model.items, product.id)
    THEN [model EXCEPT !.items =
            [i \in 1..Len(model.items) |->
                IF /\ model.items[i].product.id = product.id
                   /\ model.items[i].quantity + One
                        <= One * model.items[i].product.stock
                THEN [model.items[i] EXCEPT !.quantity = @ + One]
                ELSE model.items[i]]]
    ELSE IF product.stock <= 0 THEN model
    ELSE [model EXCEPT !.items =
            Append(model.items, [product |-> product, quantity |-> One])]

\* addItemToCart storing the product of the message in the item it
\* increments.
addItemToCart_TakesNewProduct(model, product) ==
    IF HasItem(model.items, product.id)
    THEN [model EXCEPT !.items =
            [i \in 1..Len(model.items) |->
                IF model.items[i].product.id = product.id
                THEN [product |-> product,
                      quantity |-> model.items[i].quantity + One]
                ELSE model.items[i]]]
    ELSE [model EXCEPT !.items =
            Append(model.items, [product |-> product, quantity |-> One])]

addItemToCart(model, product) ==
    IF HasItem(model.items, product.id)
    THEN [model EXCEPT !.items =
            [i \in 1..Len(model.items) |->
                IF model.items[i].product.id = product.id
                THEN [model.items[i] EXCEPT !.quantity = @ + One]
                ELSE model.items[i]]]
    ELSE [model EXCEPT !.items =
            Append(model.items, [product |-> product, quantity |-> One])]

\* The filter with its test inverted: keeps the items it should drop.
RemoveById_Inverted(items, productId) ==
    LET Keep(item) == item.product.id = productId
    IN  SelectSeq(items, Keep)

RemoveById(items, productId) ==
    LET Keep(item) == item.product.id # productId
    IN  SelectSeq(items, Keep)

\* updateItemQuantity writing the quantity into every item, the test on the
\* identifier forgotten.
updateItemQuantity_SetsAll(model, productId, quantity) ==
    IF quantity <= 0
    THEN [model EXCEPT !.items = RemoveById(model.items, productId)]
    ELSE [model EXCEPT !.items =
            [i \in 1..Len(model.items) |->
                [model.items[i] EXCEPT !.quantity = quantity]]]

\* updateItemQuantity removing on zero only: a negative quantity is written
\* into the item.
updateItemQuantity_ZeroOnly(model, productId, quantity) ==
    IF quantity = 0
    THEN [model EXCEPT !.items = RemoveById(model.items, productId)]
    ELSE [model EXCEPT !.items =
            [i \in 1..Len(model.items) |->
                IF model.items[i].product.id = productId
                THEN [model.items[i] EXCEPT !.quantity = quantity]
                ELSE model.items[i]]]

\* updateItemQuantity adding the given number to the item's quantity.
updateItemQuantity_AddsDelta(model, productId, quantity) ==
    IF quantity <= 0
    THEN [model EXCEPT !.items = RemoveById(model.items, productId)]
    ELSE [model EXCEPT !.items =
            [i \in 1..Len(model.items) |->
                IF model.items[i].product.id = productId
                THEN [model.items[i] EXCEPT !.quantity = @ + quantity]
                ELSE model.items[i]]]

\* updateItemQuantity putting the items it has written first, the others
\* after them.
updateItemQuantity_MovesToFront(model, productId, quantity) ==
    IF quantity <= 0
    THEN [model EXCEPT !.items = RemoveById(model.items, productId)]
    ELSE LET Written(item) == item.product.id = productId
             written == SelectSeq(model.items, Written)
         IN  [model EXCEPT !.items =
                [i \in 1..Len(written) |->
                    [written[i] EXCEPT !.quantity = quantity]]
                \o RemoveById(model.items, productId)]

\* updateItemQuantity with the removal test off by one (quantity < 0).
updateItemQuantity_KeepsZero(model, productId, quantity) ==
    IF quantity < 0
    THEN [model EXCEPT !.items = RemoveById(model.items, productId)]
    ELSE [model EXCEPT !.items =
            [i \in 1..Len(model.items) |->
                IF model.items[i].product.id = productId
                THEN [model.items[i] EXCEPT !.quantity = quantity]
                ELSE model.items[i]]]

updateItemQuantity(model, productId, quantity) ==
    IF quantity <= 0
    THEN [model EXCEPT !.items = RemoveById(model.items, productId)]
    ELSE [model EXCEPT !.items =
            [i \in 1..Len(model.items) |->
                IF model.items[i].product.id = productId
                THEN [model.items[i] EXCEPT !.quantity = quantity]
                ELSE model.items[i]]]

\* A reducer whose DECREMENT_ITEM stops at quantity 1 instead of removing.
update_DecrementStopsAtOne(model, msg) ==
    CASE msg.type = "ADD_ITEM" -> addItemToCart(model, msg.product)
      [] msg.type = "REMOVE_ITEM" ->
            [model EXCEPT !.items = RemoveById(model.items, msg.productId)]
      [] msg.type = "UPDATE_QUANTITY" ->
            updateItemQuantity(model, msg.productId, msg.quantity)
      [] msg.type = "INCREMENT_ITEM" ->
            IF ~HasItem(model.items, msg.productId) THEN model
            ELSE updateItemQuantity(model, msg.productId,
                    FindItem(model.items, msg.productId).quantity + One)
      [] msg.type = "DECREMENT_ITEM" ->
            IF ~HasItem(model.items, msg.productId) THEN model
            ELSE IF FindItem(model.items, msg.productId).quantity <= One
            THEN model
            ELSE updateItemQuantity(model, msg.productId,
                    FindItem(model.items, msg.productId).quantity - One)
      [] msg.type = "CLEAR_CART" -> [model EXCEPT !.items = <<>>]
      [] msg.type = "HYDRATE_FROM_STORAGE" -> [model EXCEPT !.items = msg.items]
      [] OTHER -> model

update(model, msg) ==
    CASE msg.type = "ADD_ITEM" -> addItemToCart(model, msg.product)
      [] msg.type = "REMOVE_ITEM" ->
            [model EXCEPT !.items = RemoveById(model.items, msg.productId)]
      [] msg.type = "UPDATE_QUANTITY" ->
            updateItemQuantity(model, msg.productId, msg.quantity)
      [] msg.type = "INCREMENT_ITEM" ->
            IF ~HasItem(model.items, msg.productId) THEN model
            ELSE updateItemQuantity(model, msg.productId,
                    FindItem(model.items, msg.productId).quantity + One)
      [] msg.type = "DECREMENT_ITEM" ->
            IF ~HasItem(model.items, msg.productId) THEN model
            ELSE updateItemQuantity(model, msg.productId,
                    FindItem(model.items, msg.productId).quantity - One)
      [] msg.type = "CLEAR_CART" -> [model EXCEPT !.items = <<>>]
      [] msg.type = "HYDRATE_FROM_STORAGE" -> [model EXCEPT !.items = msg.items]
      [] OTHER -> model

\* A reducer that spares itself a new object when CLEAR_CART meets a cart
\* that is empty already.
ReturnsInput_ClearOfEmpty(model, msg) ==
    \/ /\ msg.type \in {"INCREMENT_ITEM", "DECREMENT_ITEM"}
       /\ ~HasItem(model.items, msg.productId)
    \/ /\ msg.type = "CLEAR_CART"
       /\ model.items = <<>>

\* A watcher that compares the number of items only, so that a change of a
\* quantity inside an existing item goes unnoticed.
ReturnsInput_LengthOnly(model, msg) ==
    Len(update(model, msg).items) = Len(model.items)

\* Whether update hands back the very object it was given (`return model`).
\* Every other branch builds a new object, which the store's ref sees as a
\* change.
ReturnsInput(model, msg) ==
    /\ msg.type \in {"INCREMENT_ITEM", "DECREMENT_ITEM"}
    /\ ~HasItem(model.items, msg.productId)

\* Whether the items array of the result is the array object of the input
\* model: map, filter, spread and [] build a new array, and the array of a
\* HYDRATE_FROM_STORAGE message is the message's own, so only `return model`
\* hands the input's array back.
ReturnsInputItems(model, msg) == ReturnsInput(model, msg)

\* The input model after update returned: no branch writes to it.
ModelAfterUpdate(model, msg) == model

\* ------------------------------------------------------------ calculations
\* Amounts are numbers like quantities, written Scale * x.  TAX_RATE is 0.1,
\* written as the fraction 1/10.
TAX_RATE == [num |-> 1, den |-> 10]

INITIAL_SUM == 0

\* Math.round of the number whose written form is x / den: the nearest
\* integer, a half rounded towards +Infinity, i.e. floor(x + 1/2).
MathRound(x, den) == One * ((2 * x + Scale * den) \div (2 * Scale * den))

\* price is an integer of cents, quantity a number.
calculateItemSubtotal(price, quantity) == price * quantity

\* Array.prototype.reduce from INITIAL_SUM, left to right.
RECURSIVE calculateSubtotal(_)
calculateSubtotal(items) ==
    IF items = <<>> THEN INITIAL_SUM
    ELSE LET n == Len(items)
         IN  calculateSubtotal(SubSeq(items, 1, n - 1))
               + calculateItemSubtotal(items[n].product.price,
                                       items[n].quantity)

\* calculateTax with Math.floor in the place of Math.round.
calculateTax_Floors(subtotal) ==
    One * ((subtotal * TAX_RATE.num) \div (Scale * TAX_RATE.den))

calculateTax(subtotal) == MathRound(subtotal * TAX_RATE.num, TAX_RATE.den)

calculateTotal(subtotal, tax) == subtotal + tax

\* The number of cart lines in the place of the sum of their quantities.
calculateItemCount_CountsLines(items) == One * Len(items)

RECURSIVE calculateItemCount(_)
calculateItemCount(items) ==
    IF items = <<>> THEN INITIAL_SUM
    ELSE LET n == Len(items)
         IN  calculateItemCount(SubSeq(items, 1, n - 1)) + items[n].quantity

\* ------------------------------------- the reducer of app/features/cart
\* The earlier reducer: its items carry a subtotal, ADD_ITEM validates the
\* product and UPDATE_QUANTITY the quantity.  An amount is written on the
\* scale of the quantities, so the price of one unit is price * One.

\* addItemToCart that raises the quantity and leaves the subtotal it found.
featuresAddItemToCart_StaleSubtotal(model, product) ==
    IF ~ProductSchema(product) THEN model
    ELSE IF HasItem(model.items, product.id)
    THEN [model EXCEPT !.items =
            [i \in 1..Len(model.items) |->
                IF model.items[i].product.id = product.id
                THEN [model.items[i] EXCEPT !.quantity = @ + One]
                ELSE model.items[i]]]
    ELSE [model EXCEPT !.items =
            Append(model.items, [product |-> product, quantity |-> One,
                                 subtotal |-> product.price * One])]

featuresAddItemToCart(model, product) ==
    IF ~ProductSchema(product) THEN model
    ELSE IF HasItem(model.items, product.id)
    THEN [model EXCEPT !.items =
            [i \in 1..Len(model.items) |->
                IF model.items[i].product.id = product.id
                THEN [model.items[i] EXCEPT
                        !.quantity = @ + One,
                        !.subtotal =
                            calculateItemSubtotal(model.items[i].product.price,
                                                  model.items[i].quantity + One)]
                ELSE model.items[i]]]
    ELSE [model EXCEPT !.items =
            Append(model.items, [product |-> product, quantity |-> One,
                                 subtotal |-> product.price * One])]

featuresUpdateItemQuantity(model, productId, quantity) ==
    IF ~IsInteger(quantity) THEN model
    ELSE IF quantity <= 0
    THEN [model EXCEPT !.items = RemoveById(model.items, productId)]
    ELSE [model EXCEPT !.items =
            [i \in 1..Len(model.items) |->
                IF model.items[i].product.id = productId
                THEN [model.items[i] EXCEPT
                        !.quantity = quantity,
                        !.subtotal =
                            calculateItemSubtotal(model.items[i].product.price,
                                                  quantity)]
                ELSE model.items[i]]]

featuresUpdate(model, msg) ==
    CASE msg.type = "ADD_ITEM" -> featuresAddItemToCart(model, msg.product)
      [] msg.type = "REMOVE_ITEM" ->
            [model EXCEPT !.items = RemoveById(model.items, msg.productId)]
      [] msg.type = "UPDATE_QUANTITY" ->
            featuresUpdateItemQuantity(model, msg.productId, msg.quantity)
      [] msg.type = "INCREMENT_ITEM" ->
            IF ~HasItem(model.items, msg.productId) THEN model
            ELSE featuresUpdateItemQuantity(model, msg.productId,
                    FindItem(model.items, msg.productId).quantity + One)
      [] msg.type = "DECREMENT_ITEM" ->
            IF ~HasItem(model.items, msg.productId) THEN model
            ELSE featuresUpdateItemQuantity(model, msg.productId,
                    FindItem(model.items, msg.productId).quantity - One)
      [] msg.type = "CLEAR_CART" -> [model EXCEPT !.items = <<>>]
      [] msg.type = "HYDRATE_FROM_STORAGE" -> [model EXCEPT !.items = msg.items]
      [] OTHER -> model

\* ----------------------------------------------------------------- storage
\* What localStorage holds under one key: no entry, or a string.  A string
\* is the empty string, text that JSON.parse rejects, or JSON text, written
\* here by the value it parses to: an array (elems) or some other value.
STORAGE_KEY == "shopping-cart"

NoEntry == [kind |-> "absent", elems |-> <<>>]
EmptyString == [kind |-> "empty", elems |-> <<>>]
Garbage == [kind |-> "garbage", elems |-> <<>>]
JsonObject == [kind |-> "object", elems |-> <<>>]
JsonArray(elems) == [kind |-> "array", elems |-> elems]

\* JSON.stringify of an item array: one JSON object per item, a number
\* written with its value.
JSONstringify(items) ==
    JsonArray([i \in 1..Len(items) |->
        [product |-> items[i].product, quantity |-> items[i].quantity]])

Item(p, q) == [product |-> p, quantity |-> q]

\* The environment: "ok" is a working localStorage; "unavailable" is no
\* window (server side); "writefail" is a localStorage whose every setItem
\* throws; "quota" is one that has room for the probe of
\* isLocalStorageAvailable but throws on writing the cart.
StorageModes == {"ok", "unavailable", "writefail", "quota"}

\* Entries a store can find at construction: written by an earlier session,
\* by another version of the application, or by hand.
InitialEntries ==
    { NoEntry, EmptyString, Garbage, JsonObject,
      JsonArray(<<>>),
      JsonArray(<<Item(P1, One)>>),
      JsonArray(<<Item(P2, One), Item(P1, 2 * One)>>),
      JsonArray(<<Item(P1, One), Item(P1b, 2 * One)>>),
      JsonArray(<<Item(P1, One), Item(P2, 0)>>),
      JsonArray(<<Item(P2, One + 1)>>),
      JsonArray(<<Item(PBad, One)>>) }

\* isLocalStorageAvailable without its probe write: only the window test.
isLocalStorageAvailable_NoProbe(mode) == mode # "unavailable"

isLocalStorageAvailable(mode) == mode \in {"ok", "quota"}

\* localStorage.setItem(key, text) for the cart's entry: the entry after the
\* call and whether the call threw.
LocalStorageSetItem(mode, entry, text) ==
    IF mode = "ok" THEN [entry |-> text, threw |-> FALSE]
    ELSE [entry |-> entry, threw |-> TRUE]

CartItemSchema(e) ==
    /\ ProductSchema(e.product)
    /\ IsInteger(e.quantity)
    /\ e.quantity > 0

\* z.array(CartItemSchema).safeParse of a parsed JSON value.
SafeParseCart(json) ==
    /\ json.kind = "array"
    /\ \A i \in 1..Len(json.elems) : CartItemSchema(json.elems[i])

Null == [found |-> FALSE, data |-> <<>>]
Found(data) == [found |-> TRUE, data |-> data]

removeItem(mode, entry) ==
    IF ~isLocalStorageAvailable(mode) THEN entry ELSE NoEntry

\* getValidatedItem keeping the elements that pass the schema instead of
\* rejecting the whole array.
getValidatedItem_KeepsValid(mode, entry) ==
    IF ~isLocalStorageAvailable(mode) \/ entry.kind \in {"absent", "empty"}
    THEN [value |-> Null, entry |-> entry, log |-> "none", threw |-> FALSE]
    ELSE IF entry.kind = "garbage"
    THEN [value |-> Null, entry |-> entry, log |-> "read failed", threw |-> FALSE]
    ELSE IF entry.kind # "array"
    THEN [value |-> Null, entry |-> removeItem(mode, entry),
          log |-> "validation failed", threw |-> FALSE]
    ELSE [value |-> Found(SelectSeq(entry.elems, CartItemSchema)),
          entry |-> entry,
          log |-> IF SafeParseCart(entry) THEN "none" ELSE "validation failed",
          threw |-> FALSE]

\* The result (value), the entry left in storage, the diagnostic logged and
\* whether an exception left the function.
getValidatedItem(mode, entry) ==
    IF ~isLocalStorageAvailable(mode)
    THEN [value |-> Null, entry |-> entry, log |-> "none", threw |-> FALSE]
    ELSE IF entry.kind \in {"absent", "empty"}
    THEN [value |-> Null, entry |-> entry, log |-> "none", threw |-> FALSE]
    ELSE IF entry.kind = "garbage"
    THEN \* JSON.parse throws; the catch logs and returns null
         [value |-> Null, entry |-> entry, log |-> "read failed", threw |-> FALSE]
    ELSE IF SafeParseCart(entry)
    THEN [value |-> Found(entry.elems), entry |-> entry, log |-> "none",
          threw |-> FALSE]
    ELSE [value |-> Null, entry |-> removeItem(mode, entry),
          log |-> "validation failed", threw |-> FALSE]

\* setItem that writes only when the key holds nothing yet.
setItem_KeepsExisting(mode, entry, value) ==
    IF ~isLocalStorageAvailable(mode)
    THEN [entry |-> entry, log |-> "none", threw |-> FALSE]
    ELSE IF entry.kind # "absent"
    THEN [entry |-> entry, log |-> "none", threw |-> FALSE]
    ELSE LET r == LocalStorageSetItem(mode, entry, JSONstringify(value))
         IN  IF r.threw
             THEN [entry |-> entry, log |-> "save failed", threw |-> FALSE]
             ELSE [entry |-> r.entry, log |-> "none", threw |-> FALSE]

setItem(mode, entry, value) ==
    IF ~isLocalStorageAvailable(mode)
    THEN [entry |-> entry, log |-> "none", threw |-> FALSE]
    ELSE LET r == LocalStorageSetItem(mode, entry, JSONstringify(value))
         IN  IF r.threw
             THEN [entry |-> entry, log |-> "save failed", threw |-> FALSE]
             ELSE [entry |-> r.entry, log |-> "none", threw |-> FALSE]

\* A load effect that dispatches the stored array twice.
loadCartFromStorage_HydratesTwice(mode, entry, model) ==
    LET r == getValidatedItem(mode, entry)
        first == update(model, [type |-> "HYDRATE_FROM_STORAGE",
                                items |-> r.value.data])
    IN  [model |-> IF r.value.found
                   THEN update(first, [type |-> "HYDRATE_FROM_STORAGE",
                                       items |-> r.value.data])
                   ELSE model,
         entry |-> r.entry,
         hydrations |-> IF r.value.found THEN 2 ELSE 0,
         log |-> r.log,
         threw |-> r.threw]

\* The load effect on a model: the model after it, the entry left, the number
\* of HYDRATE_FROM_STORAGE messages dispatched, the diagnostic, and whether
\* an exception left it.
loadCartFromStorage(mode, entry, model) ==
    LET r == getValidatedItem(mode, entry)
    IN  [model |-> IF r.value.found
                   THEN update(model, [type |-> "HYDRATE_FROM_STORAGE",
                                       items |-> r.value.data])
                   ELSE model,
         entry |-> r.entry,
         hydrations |-> IF r.value.found THEN 1 ELSE 0,
         log |-> r.log,
         threw |-> r.threw]

saveCartToStorage(mode, entry, items) == setItem(mode, entry, items)

\* -------------------------------------------------------- products reducer
\* A filter's optional criteria are sequences, as a product's rating is.
Filter(search, category, inStock) ==
    [search |-> search, category |-> category, priceRange |-> <<>>,
     minRating |-> <<>>, inStock |-> inStock]

NoError == <<>>

productsInitialModel ==
    [products |-> <<>>,
     loading |-> FALSE,
     error |-> NoError,
     currentFilter |-> Filter(<<>>, <<"all">>, <<FALSE>>),
     currentSort |-> "name-asc"]

\* FETCH_REQUEST keeping the previous error.
productsUpdate_RequestKeepsError(model, msg) ==
    CASE msg.type = "SET_FILTER" -> [model EXCEPT !.currentFilter = msg.filter]
      [] msg.type = "SET_SORT" -> [model EXCEPT !.currentSort = msg.sort]
      [] msg.type = "RESET_FILTER" ->
            [model EXCEPT !.currentFilter = productsInitialModel.currentFilter,
                          !.currentSort = productsInitialModel.currentSort]
      [] msg.type = "FETCH_REQUEST" -> [model EXCEPT !.loading = TRUE]
      [] msg.type = "FETCH_SUCCESS" ->
            [model EXCEPT !.loading = FALSE, !.products = msg.products,
                          !.error = NoError]
      [] msg.type = "FETCH_FAILURE" ->
            [model EXCEPT !.loading = FALSE, !.error = <<msg.error>>]
      [] OTHER -> model

\* RESET_FILTER going back to the whole initial model.
productsUpdate_ResetsAll(model, msg) ==
    CASE msg.type = "SET_FILTER" -> [model EXCEPT !.currentFilter = msg.filter]
      [] msg.type = "SET_SORT" -> [model EXCEPT !.currentSort = msg.sort]
      [] msg.type = "RESET_FILTER" -> productsInitialModel
      [] msg.type = "FETCH_REQUEST" ->
            [model EXCEPT !.loading = TRUE, !.error = NoError]
      [] msg.type = "FETCH_SUCCESS" ->
            [model EXCEPT !.loading = FALSE, !.products = msg.products,
                          !.error = NoError]
      [] msg.type = "FETCH_FAILURE" ->
            [model EXCEPT !.loading = FALSE, !.error = <<msg.error>>]
      [] OTHER -> model

\* FETCH_SUCCESS keeping the previous error.
productsUpdate_SuccessKeepsError(model, msg) ==
    CASE msg.type = "SET_FILTER" -> [model EXCEPT !.currentFilter = msg.filter]
      [] msg.type = "SET_SORT" -> [model EXCEPT !.currentSort = msg.sort]
      [] msg.type = "RESET_FILTER" ->
            [model EXCEPT !.currentFilter = productsInitialModel.currentFilter,
                          !.currentSort = productsInitialModel.currentSort]
      [] msg.type = "FETCH_REQUEST" ->
            [model EXCEPT !.loading = TRUE, !.error = NoError]
      [] msg.type = "FETCH_SUCCESS" ->
            [model EXCEPT !.loading = FALSE, !.products = msg.products]
      [] msg.type = "FETCH_FAILURE" ->
            [model EXCEPT !.loading = FALSE, !.error = <<msg.error>>]
      [] OTHER -> model

\* FETCH_FAILURE dropping the products of the last success.
productsUpdate_FailureDropsProducts(model, msg) ==
    CASE msg.type = "SET_FILTER" -> [model EXCEPT !.currentFilter = msg.filter]
      [] msg.type = "SET_SORT" -> [model EXCEPT !.currentSort = msg.sort]
      [] msg.type = "RESET_FILTER" ->
            [model EXCEPT !.currentFilter = productsInitialModel.currentFilter,
                          !.currentSort = productsInitialModel.currentSort]
      [] msg.type = "FETCH_REQUEST" ->
            [model EXCEPT !.loading = TRUE, !.error = NoError]
      [] msg.type = "FETCH_SUCCESS" ->
            [model EXCEPT !.loading = FALSE, !.products = msg.products,
                          !.error = NoError]
      [] msg.type = "FETCH_FAILURE" ->
            [model EXCEPT !.loading = FALSE, !.products = <<>>,
                          !.error = <<msg.error>>]
      [] OTHER -> model

\* RESET_FILTER resetting the filter and leaving the sort.
productsUpdate_ResetKeepsSort(model, msg) ==
    CASE msg.type = "SET_FILTER" -> [model EXCEPT !.currentFilter = msg.filter]
      [] msg.type = "SET_SORT" -> [model EXCEPT !.currentSort = msg.sort]
      [] msg.type = "RESET_FILTER" ->
            [model EXCEPT !.currentFilter = productsInitialModel.currentFilter]
      [] msg.type = "FETCH_REQUEST" ->
            [model EXCEPT !.loading = TRUE, !.error = NoError]
      [] msg.type = "FETCH_SUCCESS" ->
            [model EXCEPT !.loading = FALSE, !.products = msg.products,
                          !.error = NoError]
      [] msg.type = "FETCH_FAILURE" ->
            [model EXCEPT !.loading = FALSE, !.error = <<msg.error>>]
      [] OTHER -> model

\* FETCH_FAILURE recording the error and leaving loading as it is.
productsUpdate_FailureKeepsLoading(model, msg) ==
    CASE msg.type = "SET_FILTER" -> [model EXCEPT !.currentFilter = msg.filter]
      [] msg.type = "SET_SORT" -> [model EXCEPT !.currentSort = msg.sort]
      [] msg.type = "RESET_FILTER" ->
            [model EXCEPT !.currentFilter = productsInitialModel.currentFilter,
                          !.currentSort = productsInitialModel.currentSort]
      [] msg.type = "FETCH_REQUEST" ->
            [model EXCEPT !.loading = TRUE, !.error = NoError]
      [] msg.type = "FETCH_SUCCESS" ->
            [model EXCEPT !.loading = FALSE, !.products = msg.products,
                          !.error = NoError]
      [] msg.type = "FETCH_FAILURE" -> [model EXCEPT !.error = <<msg.error>>]
      [] OTHER -> model

\* FETCH_SUCCESS starting the view afresh: filter and sort go back to their
\* initial values with the new products.
productsUpdate_SuccessResetsView(model, msg) ==
    CASE msg.type = "SET_FILTER" -> [model EXCEPT !.currentFilter = msg.filter]
      [] msg.type = "SET_SORT" -> [model EXCEPT !.currentSort = msg.sort]
      [] msg.type = "RESET_FILTER" ->
            [model EXCEPT !.currentFilter = productsInitialModel.currentFilter,
                          !.currentSort = productsInitialModel.currentSort]
      [] msg.type = "FETCH_REQUEST" ->
            [model EXCEPT !.loading = TRUE, !.error = NoError]
      [] msg.type = "FETCH_SUCCESS" ->
            [model EXCEPT !.loading = FALSE, !.products = msg.products,
                          !.error = NoError,
                          !.currentFilter = productsInitialModel.currentFilter,
                          !.currentSort = productsInitialModel.currentSort]
      [] msg.type = "FETCH_FAILURE" ->
            [model EXCEPT !.loading = FALSE, !.error = <<msg.error>>]
      [] OTHER -> model

\* SET_FILTER merging the given criteria into the previous filter.
productsUpdate_MergesFilter(model, msg) ==
    CASE msg.type = "SET_FILTER" ->
            [model EXCEPT !.currentFilter =
                [k \in DOMAIN @ |-> IF msg.filter[k] = <<>> THEN @[k]
                                    ELSE msg.filter[k]]]
      [] msg.type = "SET_SORT" -> [model EXCEPT !.currentSort = msg.sort]
      [] msg.type = "RESET_FILTER" ->
            [model EXCEPT !.currentFilter = productsInitialModel.currentFilter,
                          !.currentSort = productsInitialModel.currentSort]
      [] msg.type = "FETCH_REQUEST" ->
            [model EXCEPT !.loading = TRUE, !.error = NoError]
      [] msg.type = "FETCH_SUCCESS" ->
            [model EXCEPT !.loading = FALSE, !.products = msg.products,
                          !.error = NoError]
      [] msg.type = "FETCH_FAILURE" ->
            [model EXCEPT !.loading = FALSE, !.error = <<msg.error>>]
      [] OTHER -> model

productsUpdate(model, msg) ==
    CASE msg.type = "SET_FILTER" -> [model EXCEPT !.currentFilter = msg.filter]
      [] msg.type = "SET_SORT" -> [model EXCEPT !.currentSort = msg.sort]
      [] msg.type = "RESET_FILTER" ->
            [model EXCEPT !.currentFilter = productsInitialModel.currentFilter,
                          !.currentSort = productsInitialModel.currentSort]
      [] msg.type = "FETCH_REQUEST" ->
            [model EXCEPT !.loading = TRUE, !.error = NoError]
      [] msg.type = "FETCH_SUCCESS" ->
            [model EXCEPT !.loading = FALSE, !.products = msg.products,
                          !.error = NoError]
      [] msg.type = "FETCH_FAILURE" ->
            [model EXCEPT !.loading = FALSE, !.error = <<msg.error>>]
      [] OTHER -> model

\* Whether the products reducer hands back the object it was given: only
\* the default branch does, which no message of the type reaches.
productsReturnsInput(model, msg) ==
    msg.type \notin {"SET_FILTER", "SET_SORT", "RESET_FILTER", "FETCH_REQUEST",
                     "FETCH_SUCCESS", "FETCH_FAILURE"}

\* The input model after the products reducer returned.
productsModelAfterUpdate(model, msg) == model

\* ------------------------------------------------------ filtering, sorting
DEFAULT_RATING == 0
MIN_STOCK_AVAILABLE == 0

UpperCaseLetters == "ABCDEFGHIJKLMNOPQRSTUVWXYZ"
LowerCaseLetters == "abcdefghijklmnopqrstuvwxyz"

\* The place of a character in the alphabet, 0 for any other character.
LetterRank(c) ==
    IF \E i \in 1..26 : c \in {SubSeq(UpperCaseLetters, i, i),
                                SubSeq(LowerCaseLetters, i, i)}
    THEN CHOOSE i \in 1..26 : c \in {SubSeq(UpperCaseLetters, i, i),
                                      SubSeq(LowerCaseLetters, i, i)}
    ELSE 0

\* String.prototype.toLowerCase
RECURSIVE toLowerCase(_)
toLowerCase(str) ==
    IF Len(str) = 0 THEN ""
    ELSE LET c == SubSeq(str, 1, 1)
             r == LetterRank(c)
         IN  (IF r = 0 THEN c ELSE SubSeq(LowerCaseLetters, r, r))
                \o toLowerCase(SubSeq(str, 2, Len(str)))

\* String.prototype.trim, for the blanks of the model's strings.
RECURSIVE trim(_)
trim(str) ==
    IF Len(str) = 0 THEN ""
    ELSE IF SubSeq(str, 1, 1) = " " THEN trim(SubSeq(str, 2, Len(str)))
    ELSE IF SubSeq(str, Len(str), Len(str)) = " "
    THEN trim(SubSeq(str, 1, Len(str) - 1))
    ELSE str

\* String.prototype.includes
includes(str, query) ==
    \E i \in 1..(Len(str) - Len(query) + 1) :
        SubSeq(str, i, i + Len(query) - 1) = query

\* a.localeCompare(b) for names of letters and blanks: letter by letter in
\* alphabetical order, a prefix first; negative, zero or positive.
RECURSIVE localeCompare(_, _)
localeCompare(a, b) ==
    IF Len(a) = 0 /\ Len(b) = 0 THEN 0
    ELSE IF Len(a) = 0 THEN -1
    ELSE IF Len(b) = 0 THEN 1
    ELSE LET ra == LetterRank(SubSeq(a, 1, 1))
             rb == LetterRank(SubSeq(b, 1, 1))
         IN  IF ra # rb THEN ra - rb
             ELSE localeCompare(SubSeq(a, 2, Len(a)), SubSeq(b, 2, Len(b)))

\* p.rating ?? DEFAULT_RATING
\* A product without a rating ranked below every rated one.
RatingOrDefault_BelowAll(p) == IF p.rating = <<>> THEN -1 ELSE p.rating[1]

RatingOrDefault(p) == IF p.rating = <<>> THEN DEFAULT_RATING ELSE p.rating[1]

\* The tests of filterProducts with the search comparing the texts as they
\* are, upper and lower case told apart.
PassesFilter_CaseSensitive(p, filter) ==
    /\ (filter.search # <<>> /\ trim(filter.search[1]) # "") =>
            LET query == filter.search[1]
            IN  \/ includes(p.name, query)
                \/ includes(p.description, query)
    /\ (filter.category # <<>> /\ filter.category[1] \notin {"", "all"}) =>
            p.category = filter.category[1]
    /\ filter.priceRange # <<>> =>
            (p.price >= filter.priceRange[1].min
                /\ p.price <= filter.priceRange[1].max)
    /\ filter.minRating # <<>> => RatingOrDefault(p) >= filter.minRating[1]
    /\ filter.inStock = <<TRUE>> => p.stock > MIN_STOCK_AVAILABLE

\* The conjunction of the tests filterProducts applies to one product.
PassesFilter(p, filter) ==
    /\ (filter.search # <<>> /\ trim(filter.search[1]) # "") =>
            LET query == toLowerCase(filter.search[1])
            IN  \/ includes(toLowerCase(p.name), query)
                \/ includes(toLowerCase(p.description), query)
    /\ (filter.category # <<>> /\ filter.category[1] \notin {"", "all"}) =>
            p.category = filter.category[1]
    /\ filter.priceRange # <<>> =>
            (p.price >= filter.priceRange[1].min
                /\ p.price <= filter.priceRange[1].max)
    /\ filter.minRating # <<>> => RatingOrDefault(p) >= filter.minRating[1]
    /\ filter.inStock = <<TRUE>> => p.stock > MIN_STOCK_AVAILABLE

filterProducts(products, filter) ==
    LET Keep(p) == PassesFilter(p, filter)
    IN  SelectSeq(products, Keep)

\* The caller's array after filterProducts returned: Array.prototype.filter
\* builds a new array and writes to none.
ArrayAfterFilter(products, filter) == products

\* The comparator sortProducts hands to Array.prototype.sort.
Compare(sort, a, b) ==
    CASE sort = "name-asc" -> localeCompare(a.name, b.name)
      [] sort = "name-desc" -> localeCompare(b.name, a.name)
      [] sort = "price-asc" -> a.price - b.price
      [] sort = "price-desc" -> b.price - a.price
      [] sort = "rating-desc" -> RatingOrDefault(b) - RatingOrDefault(a)
      [] OTHER -> 0

\* A sort that is not stable: x goes before the first element that the
\* comparator does not put before it.
InsertSorted_Unstable(sorted, x, sort) ==
    LET later == {i \in 1..Len(sorted) : Compare(sort, sorted[i], x) >= 0}
        at == IF later = {} THEN Len(sorted) + 1
              ELSE CHOOSE i \in later : \A j \in later : i <= j
    IN  SubSeq(sorted, 1, at - 1) \o <<x>> \o SubSeq(sorted, at, Len(sorted))

\* One step of a stable sort: x goes before the first element that the
\* comparator puts after it.
InsertSorted(sorted, x, sort) ==
    LET later == {i \in 1..Len(sorted) : Compare(sort, sorted[i], x) > 0}
        at == IF later = {} THEN Len(sorted) + 1
              ELSE CHOOSE i \in later : \A j \in later : i <= j
    IN  SubSeq(sorted, 1, at - 1) \o <<x>> \o SubSeq(sorted, at, Len(sorted))

\* Array.prototype.sort on a copy; the sort is stable.
RECURSIVE sortProducts(_, _)
sortProducts(products, sort) ==
    IF products = <<>> THEN <<>>
    ELSE LET n == Len(products)
         IN  InsertSorted(sortProducts(SubSeq(products, 1, n - 1), sort),
                          products[n], sort)

\* The caller's array after a sortProducts that sorts it in place.
ArrayAfterSort_InPlace(products, sort) == sortProducts(products, sort)

\* The caller's array after sortProducts returned: the sort runs on the
\* copy [...products].
ArrayAfterSort(products, sort) == products

\* ------------------------------------------------------------ fetch effect
\* What `await $fetch('/api/products')` can produce: a body, or a rejection
\* with an Error or with some other value.
Fulfilled(body) ==
    [kind |-> "fulfilled", body |-> body, isError |-> FALSE, message |-> ""]
Rejected(isError, message) ==
    [kind |-> "rejected", body |-> <<>>, isError |-> isError, message |-> message]

Responses ==
    { Fulfilled(<<P1, P2>>), Fulfilled(<<P2>>), Fulfilled(<<P1, PBad>>),
      Rejected(TRUE, "Network Error"), Rejected(FALSE, "") }

\* z.array(ProductSchema).safeParse(response)
SafeParseProducts(body) == \A i \in 1..Len(body) : ProductSchema(body[i])

FetchRequestMsg == [type |-> "FETCH_REQUEST"]
FetchSuccessMsg(products) == [type |-> "FETCH_SUCCESS", products |-> products]
FetchFailureMsg(error) == [type |-> "FETCH_FAILURE", error |-> error]

\* fetchProducts with the validation placed after the try block: its throw
\* leaves the function and no message is dispatched.
fetchProductsSettle_ThrowsPastCatch(response) ==
    IF response.kind = "rejected"
    THEN [msgs |-> <<FetchFailureMsg(IF response.isError THEN response.message
                                     ELSE "Failed to fetch products")>>,
          threw |-> FALSE]
    ELSE IF ~SafeParseProducts(response.body)
    THEN [msgs |-> <<>>, threw |-> TRUE]
    ELSE [msgs |-> <<FetchSuccessMsg(response.body)>>, threw |-> FALSE]

\* fetchProducts dispatching the body without checking the validation result.
fetchProductsSettle_NoCheck(response) ==
    IF response.kind = "rejected"
    THEN [msgs |-> <<FetchFailureMsg(IF response.isError THEN response.message
                                     ELSE "Failed to fetch products")>>,
          threw |-> FALSE]
    ELSE [msgs |-> <<FetchSuccessMsg(response.body)>>, threw |-> FALSE]

\* The part of fetchProducts after the await: the messages it dispatches, in
\* order, and whether an exception leaves it.
fetchProductsSettle(response) ==
    IF response.kind = "rejected"
    THEN [msgs |-> <<FetchFailureMsg(IF response.isError THEN response.message
                                     ELSE "Failed to fetch products")>>,
          threw |-> FALSE]
    ELSE IF ~SafeParseProducts(response.body)
    THEN \* the throw inside the try lands in the catch
         [msgs |-> <<FetchFailureMsg("Invalid product data received from API")>>,
          threw |-> FALSE]
    ELSE [msgs |-> <<FetchSuccessMsg(response.body)>>, threw |-> FALSE]

\* dispatch applied to each message in turn.
RECURSIVE DispatchAll(_, _)
DispatchAll(model, msgs) ==
    IF msgs = <<>> THEN model
    ELSE DispatchAll(productsUpdate(model, Head(msgs)), Tail(msgs))


\* -------------------------------------------------------------- cart store
VARIABLES
    cartStore,      \* "none" before useCartStore() has run, then "ready"
    cartModel,      \* model.value
    storageMode,    \* the environment's localStorage, one of StorageModes
    storage,        \* the entry under STORAGE_KEY
    savePending,    \* the watcher's job is queued and has not run yet
    hydrations,     \* HYDRATE_FROM_STORAGE messages dispatched by this store
    lastLog,        \* the last diagnostic this store logged
    thrown,         \* an exception has left a store operation
    cartOp,         \* the last operation of the cart store
    twin,           \* whether refModel follows the dispatches
    refModel        \* model of a store on working, initially empty storage

cartVars == <<cartStore, cartModel, storageMode, storage, savePending,
              hydrations, lastLog, thrown, cartOp, twin, refModel>>

VARIABLES
    productsModel,  \* model.value of the products store
    fetches,        \* the calls of fetchProducts, in the order they started
    landed,         \* the last message a call dispatched after its await
    productsMsg,    \* the last message dispatched to the products store
    fetchThrown     \* an exception has left a call of fetchProducts

productsVars == <<productsModel, fetches, landed, productsMsg, fetchThrown>>

\* The reducers and the calculations applied outside a store, as the unit
\* tests apply them: the inputs drawn and the value computed so far.
VARIABLE calc

NoCalc == [op |-> "none"]

vars == <<cartVars, productsVars, calc>>

Quantities == (-One)..(MaxQty * One)
IntQuantities == {q \in Quantities : IsInteger(q)}

CartInit ==
    /\ cartStore = "none"
    /\ cartModel = initialModel
    /\ storageMode \in StorageModes
    /\ storage \in InitialEntries
    /\ savePending = FALSE
    /\ hydrations = 0
    /\ lastLog = "none"
    /\ thrown = FALSE
    /\ cartOp = "none"
    /\ twin = FALSE
    /\ refModel = initialModel
    /\ productsModel = productsInitialModel
    /\ fetches = <<>>
    /\ landed = [by |-> 0, msg |-> [type |-> "none"]]
    /\ productsMsg = [type |-> "none"]
    /\ fetchThrown = FALSE
    /\ calc = NoCalc

\* useCartStore's setup function: the load effect runs, then the watcher is
\* registered, so the hydration itself queues no save.
CreateStore ==
    /\ cartStore = "none"
    /\ LET r == loadCartFromStorage(storageMode, storage, initialModel)
       IN  /\ cartModel' = r.model
           /\ storage' = r.entry
           /\ hydrations' = r.hydrations
           /\ lastLog' = r.log
           /\ thrown' = (thrown \/ r.threw)
    /\ cartStore' = "ready"
    /\ savePending' = FALSE
    /\ cartOp' = "construct"
    /\ refModel' = IF twin
                   THEN loadCartFromStorage("ok", NoEntry, initialModel).model
                   ELSE refModel
    /\ UNCHANGED <<storageMode, twin>>
    /\ UNCHANGED <<productsVars, calc>>

\* dispatch that only queues the message: the reducer has not run when it
\* returns.
dispatch_Deferred(msg) ==
    /\ cartStore = "ready"
    /\ cartModel' = cartModel
    /\ savePending' = (savePending \/ ~ReturnsInput(cartModel, msg))
    /\ cartOp' = msg.type
    /\ refModel' = IF twin THEN update(refModel, msg) ELSE refModel
    /\ UNCHANGED <<cartStore, storageMode, storage, hydrations, lastLog,
                   thrown, twin>>

\* dispatch(msg): the reducer runs synchronously; assigning a new object to
\* the ref queues the watcher's job, which runs later (RunSave).
dispatch(msg) ==
    /\ cartStore = "ready"
    /\ cartModel' = update(cartModel, msg)
    /\ savePending' = (savePending \/ ~ReturnsInput(cartModel, msg))
    /\ cartOp' = msg.type
    /\ refModel' = IF twin THEN update(refModel, msg) ELSE refModel
    /\ UNCHANGED <<cartStore, storageMode, storage, hydrations, lastLog,
                   thrown, twin>>

\* The model's bound on quantities: no item grows past MaxQty.
CanGrow(productId) ==
    \A i \in 1..Len(cartModel.items) :
        cartModel.items[i].product.id = productId
            => cartModel.items[i].quantity + One <= MaxQty * One

AddItem ==
    \E product \in CartProducts :
        /\ CanGrow(product.id)
        /\ dispatch([type |-> "ADD_ITEM", product |-> product])
        /\ UNCHANGED <<productsVars, calc>>

RemoveItem ==
    \E productId \in ProductIds :
        /\ dispatch([type |-> "REMOVE_ITEM", productId |-> productId])
        /\ UNCHANGED <<productsVars, calc>>

UpdateQuantity(allowed) ==
    \E productId \in ProductIds, quantity \in allowed :
        /\ dispatch([type |-> "UPDATE_QUANTITY", productId |-> productId,
                     quantity |-> quantity])
        /\ UNCHANGED <<productsVars, calc>>

IncrementItem ==
    \E productId \in ProductIds :
        /\ CanGrow(productId)
        /\ dispatch([type |-> "INCREMENT_ITEM", productId |-> productId])
        /\ UNCHANGED <<productsVars, calc>>

DecrementItem ==
    \E productId \in ProductIds :
        /\ dispatch([type |-> "DECREMENT_ITEM", productId |-> productId])
        /\ UNCHANGED <<productsVars, calc>>

\* A cart store that reaches into the products store: clearing the cart
\* also puts the catalog back to its initial model.
ClearCart_ResetsCatalog ==
    /\ dispatch([type |-> "CLEAR_CART"])
    /\ productsModel' = productsInitialModel
    /\ UNCHANGED <<fetches, landed, productsMsg, fetchThrown, calc>>

ClearCart ==
    /\ dispatch([type |-> "CLEAR_CART"])
    /\ UNCHANGED <<productsVars, calc>>

\* The watcher's queued job: saveCartToStorage(model.value.items).
RunSave ==
    /\ cartStore = "ready"
    /\ savePending
    /\ LET r == saveCartToStorage(storageMode, storage, cartModel.items)
       IN  /\ storage' = r.entry
           /\ lastLog' = IF r.log = "none" THEN lastLog ELSE r.log
           /\ thrown' = (thrown \/ r.threw)
    /\ savePending' = FALSE
    /\ cartOp' = "save"
    /\ UNCHANGED <<cartStore, cartModel, storageMode, hydrations, twin,
                   refModel>>
    /\ UNCHANGED <<productsVars, calc>>

\* The page is reloaded: the store is gone, the storage entry stays.  A
\* reload is a task of its own, so no watcher job is pending when it starts.
Reload ==
    /\ cartStore = "ready"
    /\ ~savePending
    /\ cartStore' = "none"
    /\ cartModel' = initialModel
    /\ hydrations' = 0
    /\ lastLog' = "none"
    /\ cartOp' = "reload"
    /\ UNCHANGED <<storageMode, storage, savePending, thrown, twin, refModel>>
    /\ UNCHANGED <<productsVars, calc>>

CartNext ==
    \/ CreateStore
    \/ AddItem
    \/ RemoveItem
    \/ UpdateQuantity(Quantities)
    \/ IncrementItem
    \/ DecrementItem
    \/ ClearCart
    \/ RunSave
    \/ Reload

CartSpec == CartInit /\ [][CartNext]_vars

CartIntNext ==
    \/ CreateStore
    \/ AddItem
    \/ RemoveItem
    \/ UpdateQuantity(IntQuantities)
    \/ IncrementItem
    \/ DecrementItem
    \/ ClearCart
    \/ RunSave
    \/ Reload

\* Callers pass whole numbers only.
CartIntSpec == CartInit /\ [][CartIntNext]_vars

\* A store on a localStorage that passes the probe, over no entry or a valid
\* one.
CartLiveInit ==
    /\ cartStore = "none"
    /\ cartModel = initialModel
    /\ storageMode \in {"ok", "quota"}
    /\ storage \in {NoEntry, JsonArray(<<Item(P1, One)>>)}
    /\ savePending = FALSE
    /\ hydrations = 0
    /\ lastLog = "none"
    /\ thrown = FALSE
    /\ cartOp = "none"
    /\ twin = FALSE
    /\ refModel = initialModel
    /\ productsModel = productsInitialModel
    /\ fetches = <<>>
    /\ landed = [by |-> 0, msg |-> [type |-> "none"]]
    /\ productsMsg = [type |-> "none"]
    /\ fetchThrown = FALSE
    /\ calc = NoCalc

\* The scheduler flushes its queue: a queued watcher job does run.  Callers
\* pass whole numbers.
CartLiveSpec == CartLiveInit /\ [][CartIntNext]_vars /\ WF_vars(RunSave)

\* A store whose storage is unavailable or rejects every write, run beside a
\* store on working, initially empty storage that gets the same dispatches.
ShadowInit ==
    /\ cartStore = "none"
    /\ cartModel = initialModel
    /\ storageMode \in {"unavailable", "writefail"}
    /\ storage \in InitialEntries
    /\ savePending = FALSE
    /\ hydrations = 0
    /\ lastLog = "none"
    /\ thrown = FALSE
    /\ cartOp = "none"
    /\ twin = TRUE
    /\ refModel = initialModel
    /\ productsModel = productsInitialModel
    /\ fetches = <<>>
    /\ landed = [by |-> 0, msg |-> [type |-> "none"]]
    /\ productsMsg = [type |-> "none"]
    /\ fetchThrown = FALSE
    /\ calc = NoCalc

ShadowNext ==
    \/ CreateStore
    \/ AddItem
    \/ RemoveItem
    \/ UpdateQuantity(Quantities)
    \/ IncrementItem
    \/ DecrementItem
    \/ ClearCart
    \/ RunSave

ShadowSpec == ShadowInit /\ [][ShadowNext]_vars

\* ---------------------------------------------------------- products store
Filters == { productsInitialModel.currentFilter,
             Filter(<<"novel">>, <<>>, <<TRUE>>),
             Filter(<<"NOV">>, <<"books">>, <<>>) }
Sorts == {"name-asc", "name-desc", "price-asc", "price-desc", "rating-desc"}
\* The sort keys the callers of this model pick.
PickedSorts == {"name-asc", "price-desc"}

ProductsInit ==
    /\ cartStore = "none"
    /\ cartModel = initialModel
    /\ storageMode \in {"ok"}
    /\ storage \in {NoEntry}
    /\ savePending = FALSE
    /\ hydrations = 0
    /\ lastLog = "none"
    /\ thrown = FALSE
    /\ cartOp = "none"
    /\ twin = FALSE
    /\ refModel = initialModel
    /\ productsModel = productsInitialModel
    /\ fetches = <<>>
    /\ landed = [by |-> 0, msg |-> [type |-> "none"]]
    /\ productsMsg = [type |-> "none"]
    /\ fetchThrown = FALSE
    /\ calc = NoCalc


\* dispatch(msg) of the products store, from a caller.
productsDispatch(msg) ==
    /\ productsModel' = productsUpdate(productsModel, msg)
    /\ productsMsg' = msg
    /\ UNCHANGED <<fetches, landed, fetchThrown>>

SetFilter ==
    \E filter \in Filters :
        /\ productsDispatch([type |-> "SET_FILTER", filter |-> filter])
        /\ UNCHANGED <<cartVars, calc>>

SetSort ==
    \E sort \in PickedSorts :
        /\ productsDispatch([type |-> "SET_SORT", sort |-> sort])
        /\ UNCHANGED <<cartVars, calc>>

ResetFilter ==
    /\ productsDispatch([type |-> "RESET_FILTER"])
    /\ UNCHANGED <<cartVars, calc>>

\* A caller dispatching a fetch-lifecycle message itself: dispatch is public.
DispatchLifecycle ==
    \E msg \in {FetchRequestMsg, FetchSuccessMsg(<<P2>>),
                FetchFailureMsg("Network Error")} :
        /\ productsDispatch(msg)
        /\ UNCHANGED <<cartVars, calc>>

\* fetchProducts up to its await: FETCH_REQUEST is dispatched.
StartFetch ==
    /\ Len(fetches) < MaxFetches
    /\ productsModel' = productsUpdate(productsModel, FetchRequestMsg)
    /\ productsMsg' = FetchRequestMsg
    /\ fetches' = Append(fetches, [pc |-> "awaiting",
                                   dispatched |-> <<FetchRequestMsg>>,
                                   response |-> Rejected(FALSE, "")])
    /\ UNCHANGED <<landed, fetchThrown>>
    /\ UNCHANGED <<cartVars, calc>>

\* The await of one call settles and the call runs to its end.
ResolveFetch ==
    \E i \in 1..Len(fetches), response \in Responses :
        /\ fetches[i].pc = "awaiting"
        /\ LET r == fetchProductsSettle(response)
               n == Len(r.msgs)
           IN  /\ productsModel' = DispatchAll(productsModel, r.msgs)
               /\ productsMsg' = IF n = 0 THEN productsMsg ELSE r.msgs[n]
               /\ landed' = IF n = 0 THEN landed
                            ELSE [by |-> i, msg |-> r.msgs[n]]
               /\ fetches' = [fetches EXCEPT ![i] =
                                [pc |-> "done",
                                 dispatched |-> @.dispatched \o r.msgs,
                                 response |-> response]]
               /\ fetchThrown' = (fetchThrown \/ r.threw)
        /\ UNCHANGED <<cartVars, calc>>

\* The fetch effect is the only source of fetch-lifecycle messages.
FetchNext ==
    \/ SetFilter
    \/ SetSort
    \/ ResetFilter
    \/ StartFetch
    \/ ResolveFetch

FetchSpec == ProductsInit /\ [][FetchNext]_vars

\* The await of call i settles: the timer of the mock fires, the request of
\* $fetch is answered or fails.
SettleCall(i) ==
    /\ i \in 1..Len(fetches)
    /\ fetches[i].pc = "awaiting"
    /\ ResolveFetch
    /\ fetches'[i].pc = "done"

\* The fetch effect with every awaited promise settling at some time.
FetchLiveSpec ==
    /\ ProductsInit
    /\ [][FetchNext]_vars
    /\ \A i \in 1..MaxFetches : WF_vars(SettleCall(i))

ProductsNext ==
    \/ SetFilter
    \/ SetSort
    \/ ResetFilter
    \/ DispatchLifecycle
    \/ StartFetch
    \/ ResolveFetch

ProductsSpec == ProductsInit /\ [][ProductsNext]_vars

\* Both stores of one page, the cart store over a stored cart of two items.
StoresInit ==
    /\ cartStore = "none"
    /\ cartModel = initialModel
    /\ storageMode \in {"ok"}
    /\ storage \in {JsonArray(<<Item(P2, One), Item(P1, 2 * One)>>)}
    /\ savePending = FALSE
    /\ hydrations = 0
    /\ lastLog = "none"
    /\ thrown = FALSE
    /\ cartOp = "none"
    /\ twin = FALSE
    /\ refModel = initialModel
    /\ productsModel = productsInitialModel
    /\ fetches = <<>>
    /\ landed = [by |-> 0, msg |-> [type |-> "none"]]
    /\ productsMsg = [type |-> "none"]
    /\ fetchThrown = FALSE
    /\ calc = NoCalc

\* Dispatches to either store interleaved with pending saves and fetches.
StoresNext ==
    \/ CreateStore
    \/ RemoveItem
    \/ DecrementItem
    \/ ClearCart
    \/ RunSave
    \/ SetSort
    \/ StartFetch
    \/ ResolveFetch

StoresSpec == StoresInit /\ [][StoresNext]_vars

\* ------------------------------------------------- the cart reducer alone
\* update applied to models built outside a store: ADD_ITEM for each product
\* of a set, then REMOVE_ITEM for each of their identifiers, in any order.
AddRemovePool == {P1, P1b, P2, P4}

IdsOf(products) == {p.id : p \in products}

AddRemoveInit ==
    /\ cartStore = "none"
    /\ cartModel = initialModel
    /\ storageMode \in {"ok"}
    /\ storage \in {NoEntry}
    /\ savePending = FALSE
    /\ hydrations = 0
    /\ lastLog = "none"
    /\ thrown = FALSE
    /\ cartOp = "none"
    /\ twin = FALSE
    /\ refModel = initialModel
    /\ productsModel = productsInitialModel
    /\ fetches = <<>>
    /\ landed = [by |-> 0, msg |-> [type |-> "none"]]
    /\ productsMsg = [type |-> "none"]
    /\ fetchThrown = FALSE
    /\ calc = [op |-> "add-remove", phase |-> "adding", model |-> initialModel,
               added |-> {}, removed |-> {}]

AddDistinct ==
    /\ calc.op = "add-remove"
    /\ calc.phase = "adding"
    /\ \E product \in AddRemovePool \ calc.added :
        calc' = [calc EXCEPT
                    !.model = update(@, [type |-> "ADD_ITEM",
                                         product |-> product]),
                    !.added = @ \cup {product}]
    /\ UNCHANGED <<cartVars, productsVars>>

StartRemoving ==
    /\ calc.op = "add-remove"
    /\ calc.phase = "adding"
    /\ calc' = [calc EXCEPT !.phase = "removing"]
    /\ UNCHANGED <<cartVars, productsVars>>

RemoveAdded ==
    /\ calc.op = "add-remove"
    /\ calc.phase = "removing"
    /\ \E productId \in IdsOf(calc.added) \ calc.removed :
        calc' = [calc EXCEPT
                    !.model = update(@, [type |-> "REMOVE_ITEM",
                                         productId |-> productId]),
                    !.removed = @ \cup {productId}]
    /\ UNCHANGED <<cartVars, productsVars>>

AddRemoveNext ==
    \/ AddDistinct
    \/ StartRemoving
    \/ RemoveAdded

AddRemoveSpec == AddRemoveInit /\ [][AddRemoveNext]_vars

\* ------------------------------------------------------ calculateTax alone
TaxInit ==
    /\ cartStore = "none"
    /\ cartModel = initialModel
    /\ storageMode \in {"ok"}
    /\ storage \in {NoEntry}
    /\ savePending = FALSE
    /\ hydrations = 0
    /\ lastLog = "none"
    /\ thrown = FALSE
    /\ cartOp = "none"
    /\ twin = FALSE
    /\ refModel = initialModel
    /\ productsModel = productsInitialModel
    /\ fetches = <<>>
    /\ landed = [by |-> 0, msg |-> [type |-> "none"]]
    /\ productsMsg = [type |-> "none"]
    /\ fetchThrown = FALSE
    /\ \E subtotal \in 0..MaxSubtotal :
        calc = [op |-> "tax", subtotal |-> subtotal, tax |-> <<>>]

\* calculateTax(subtotal) is called with the integer drawn.
CalculateTax ==
    /\ calc.op = "tax"
    /\ calc.tax = <<>>
    /\ calc' = [calc EXCEPT !.tax = <<calculateTax(One * calc.subtotal)>>]
    /\ UNCHANGED <<cartVars, productsVars>>

TaxNext ==
    \/ CalculateTax

TaxSpec == TaxInit /\ [][TaxNext]_vars

\* --------------------------------------- filterProducts, sortProducts alone
CatalogPool == {P1, P1b, P2, P4, P5, P6}

\* Arrays of at most MaxCatalog products; a product may occur twice.
CatalogArrays ==
    UNION {[1..n -> CatalogPool] : n \in 0..MaxCatalog}

CatalogFilters ==
    { Filter(<<>>, <<>>, <<>>),
      Filter(<<>>, <<"all">>, <<FALSE>>),
      Filter(<<"NOV">>, <<>>, <<>>),
      Filter(<<" nov">>, <<>>, <<>>),
      Filter(<<"  ">>, <<"all">>, <<TRUE>>),
      Filter(<<"">>, <<"books">>, <<>>),
      [Filter(<<>>, <<>>, <<>>)
        EXCEPT !.priceRange = <<[min |-> 1999, max |-> 2999]>>],
      [Filter(<<>>, <<>>, <<>>) EXCEPT !.minRating = <<40>>],
      [Filter(<<>>, <<>>, <<>>) EXCEPT !.minRating = <<0>>],
      [Filter(<<>>, <<>>, <<>>) EXCEPT !.minRating = <<1>>],
      [Filter(<<>>, <<>>, <<>>) EXCEPT !.minRating = <<-10>>],
      [Filter(<<"Idea">>, <<"books">>, <<TRUE>>)
        EXCEPT !.priceRange = <<[min |-> 1000, max |-> 1999]>>,
               !.minRating = <<0>>] }

CatalogInit ==
    /\ cartStore = "none"
    /\ cartModel = initialModel
    /\ storageMode \in {"ok"}
    /\ storage \in {NoEntry}
    /\ savePending = FALSE
    /\ hydrations = 0
    /\ lastLog = "none"
    /\ thrown = FALSE
    /\ cartOp = "none"
    /\ twin = FALSE
    /\ refModel = initialModel
    /\ productsModel = productsInitialModel
    /\ fetches = <<>>
    /\ landed = [by |-> 0, msg |-> [type |-> "none"]]
    /\ productsMsg = [type |-> "none"]
    /\ fetchThrown = FALSE
    /\ \E products \in CatalogArrays :
        calc = [op |-> "catalog", called |-> "none", products |-> products,
                filter |-> Filter(<<>>, <<>>, <<>>), sort |-> "name-asc",
                out |-> <<>>, after |-> products]

\* filterProducts(products, filter) is called on the array drawn.
CallFilterProducts ==
    /\ calc.op = "catalog"
    /\ calc.called = "none"
    /\ \E filter \in CatalogFilters :
        calc' = [calc EXCEPT
                    !.called = "filterProducts",
                    !.filter = filter,
                    !.out = filterProducts(calc.products, filter),
                    !.after = ArrayAfterFilter(calc.products, filter)]
    /\ UNCHANGED <<cartVars, productsVars>>

\* sortProducts(products, sort) is called on the array drawn.
CallSortProducts ==
    /\ calc.op = "catalog"
    /\ calc.called = "none"
    /\ \E sort \in Sorts :
        calc' = [calc EXCEPT
                    !.called = "sortProducts",
                    !.sort = sort,
                    !.out = sortProducts(calc.products, sort),
                    !.after = ArrayAfterSort(calc.products, sort)]
    /\ UNCHANGED <<cartVars, productsVars>>

CatalogNext ==
    \/ CallFilterProducts
    \/ CallSortProducts

CatalogSpec == CatalogInit /\ [][CatalogNext]_vars

\* ------------------------------------------------------ the reducers alone
\* The messages callers dispatch to the cart store.
CartMsgs ==
    [type : {"ADD_ITEM"}, product : CartProducts]
    \cup [type : {"REMOVE_ITEM", "INCREMENT_ITEM", "DECREMENT_ITEM"},
          productId : ProductIds]
    \cup [type : {"UPDATE_QUANTITY"}, productId : ProductIds,
          quantity : Quantities]
    \cup [type : {"CLEAR_CART"}]

\* Models and messages the reducers are called with outside a store.
CartModels ==
    {[items |-> items] :
        items \in {<<>>, <<Item(P1, One)>>, <<Item(P2, 2 * One)>>,
                   <<Item(P1, 2 * One), Item(P2, One)>>,
                   <<Item(P2, One), Item(P1b, One)>>,
                   <<Item(P1, One), Item(P1b, 2 * One)>>,
                   <<Item(P4, One), Item(P1, One), Item(P2, 2 * One)>>,
                   <<Item(P2, One + 1)>>}}

HydrateMsgs ==
    [type : {"HYDRATE_FROM_STORAGE"}, items : {<<>>, <<Item(P2, 2 * One)>>}]

ProductsModels ==
    { productsInitialModel,
      [productsInitialModel EXCEPT !.loading = TRUE],
      [productsInitialModel EXCEPT !.products = <<P1, P2>>,
                                   !.currentSort = "price-desc"],
      [productsInitialModel EXCEPT
            !.products = <<P2>>, !.error = <<"Network Error">>,
            !.currentFilter = Filter(<<"novel">>, <<>>, <<TRUE>>)] }

ProductsMsgs ==
    [type : {"SET_FILTER"}, filter : Filters]
    \cup [type : {"SET_SORT"}, sort : Sorts]
    \cup {[type |-> "RESET_FILTER"], FetchRequestMsg,
          FetchSuccessMsg(<<P1, P2>>), FetchSuccessMsg(<<>>),
          FetchFailureMsg("Network Error")}

ReducerInit ==
    /\ cartStore = "none"
    /\ cartModel = initialModel
    /\ storageMode \in {"ok"}
    /\ storage \in {NoEntry}
    /\ savePending = FALSE
    /\ hydrations = 0
    /\ lastLog = "none"
    /\ thrown = FALSE
    /\ cartOp = "none"
    /\ twin = FALSE
    /\ refModel = initialModel
    /\ productsModel = productsInitialModel
    /\ fetches = <<>>
    /\ landed = [by |-> 0, msg |-> [type |-> "none"]]
    /\ productsMsg = [type |-> "none"]
    /\ fetchThrown = FALSE
    /\ \E model \in CartModels \cup ProductsModels :
        calc = [op |-> "reducer", called |-> "none", model |-> model,
                msg |-> [type |-> "none"], result |-> model,
                sameModel |-> TRUE, sameItems |-> TRUE, after |-> model]

\* update(model, msg) of the cart is called on the model drawn.
CallCartUpdate ==
    /\ calc.op = "reducer"
    /\ calc.called = "none"
    /\ calc.model \in CartModels
    /\ \E msg \in CartMsgs \cup HydrateMsgs :
        calc' = [calc EXCEPT
                    !.called = "cart",
                    !.msg = msg,
                    !.result = update(calc.model, msg),
                    !.sameModel = ReturnsInput(calc.model, msg),
                    !.sameItems = ReturnsInputItems(calc.model, msg),
                    !.after = ModelAfterUpdate(calc.model, msg)]
    /\ UNCHANGED <<cartVars, productsVars>>

\* update(model, msg) of the products store is called on the model drawn.
CallProductsUpdate ==
    /\ calc.op = "reducer"
    /\ calc.called = "none"
    /\ calc.model \in ProductsModels
    /\ \E msg \in ProductsMsgs :
        calc' = [calc EXCEPT
                    !.called = "products",
                    !.msg = msg,
                    !.result = productsUpdate(calc.model, msg),
                    !.sameModel = productsReturnsInput(calc.model, msg),
                    !.sameItems = FALSE,
                    !.after = productsModelAfterUpdate(calc.model, msg)]
    /\ UNCHANGED <<cartVars, productsVars>>

ReducerNext ==
    \/ CallCartUpdate
    \/ CallProductsUpdate

ReducerSpec == ReducerInit /\ [][ReducerNext]_vars

\* --------------------------------------- the reducer of app/features alone
\* Messages dispatched, one after the other, to the earlier reducer, from
\* the empty cart.
FeaturesProducts == {P1, P1b, P2, P4, PBad}

FeaturesMsgs ==
    [type : {"ADD_ITEM"}, product : FeaturesProducts]
    \cup [type : {"REMOVE_ITEM", "INCREMENT_ITEM", "DECREMENT_ITEM"},
          productId : {p.id : p \in FeaturesProducts}]
    \cup [type : {"UPDATE_QUANTITY"},
          productId : {p.id : p \in FeaturesProducts}, quantity : Quantities]
    \cup [type : {"CLEAR_CART"}]

FeaturesInit ==
    /\ cartStore = "none"
    /\ cartModel = initialModel
    /\ storageMode \in {"ok"}
    /\ storage \in {NoEntry}
    /\ savePending = FALSE
    /\ hydrations = 0
    /\ lastLog = "none"
    /\ thrown = FALSE
    /\ cartOp = "none"
    /\ twin = FALSE
    /\ refModel = initialModel
    /\ productsModel = productsInitialModel
    /\ fetches = <<>>
    /\ landed = [by |-> 0, msg |-> [type |-> "none"]]
    /\ productsMsg = [type |-> "none"]
    /\ fetchThrown = FALSE
    /\ calc = [op |-> "features", model |-> [items |-> <<>>],
               msg |-> [type |-> "none"]]

\* update(model, msg) is applied to the model reached so far.  The guard is
\* the model's bound on quantities.
FeaturesDispatch ==
    /\ calc.op = "features"
    /\ \E msg \in FeaturesMsgs :
        LET result == featuresUpdate(calc.model, msg)
        IN  /\ \A i \in 1..Len(result.items) :
                    result.items[i].quantity <= MaxQty * One
            /\ calc' = [calc EXCEPT !.model = result, !.msg = msg]
    /\ UNCHANGED <<cartVars, productsVars>>

FeaturesNext == FeaturesDispatch

FeaturesSpec == FeaturesInit /\ [][FeaturesNext]_vars

Init == CartInit
Next == CartNext \/ ProductsNext
Spec == Init /\ [][Next]_vars


\* ------------------------------------------------- cart store read surface
\* The store's computed values: each is evaluated on model.value when read.
Items == cartModel.items
itemCount == calculateItemCount(cartModel.items)
subtotal == calculateSubtotal(cartModel.items)
tax == calculateTax(subtotal)
total == calculateTotal(subtotal, tax)
isEmpty == Len(cartModel.items) = 0

\* ------------------------------------------------------------- cart claims

\* C1: with whole-number quantities from the callers and validated items
\* from storage, every item of the cart has quantity >= 1; a step that would
\* bring a quantity to 0 or below removes the item.
C1_QuantityAtLeastOne ==
    \A i \in 1..Len(Items) : Items[i].quantity >= One

\* A stored cart of one unit of product 1 was loaded and a decrement has
\* removed the item.
C1_Witness ==
    /\ storage = JsonArray(<<Item(P1, One)>>)
    /\ hydrations = 1
    /\ cartOp = "DECREMENT_ITEM"
    /\ savePending
    /\ Items = <<>>

\* C2: no cart holds two items with the same product identifier, also after
\* a hydration from stored content that passes the load validation.
C2_NoDuplicateIds ==
    \A i, j \in 1..Len(Items) :
        Items[i].product.id = Items[j].product.id => i = j

\* C3: with working storage and no save pending, a store constructed from
\* the current storage entry holds the item sequence this store holds.
C3_SurvivesReload ==
    (cartStore = "ready" /\ storageMode = "ok" /\ ~savePending)
        => loadCartFromStorage(storageMode, storage, initialModel).model.items
             = Items

\* C8: constructing the store over an entry that is not JSON leaves the cart
\* empty, clears the entry and lets no exception out.
C8_CorruptedJsonCleared ==
    [][(/\ cartStore = "none"
        /\ cartStore' = "ready"
        /\ storageMode = "ok"
        /\ storage = Garbage)
        => (/\ cartModel'.items = <<>>
            /\ storage' = NoEntry
            /\ ~thrown')]_vars

\* C9: constructing the store over an entry that parses as JSON and fails
\* the cart schema dispatches no hydration, leaves the cart empty, erases
\* the entry and lets no exception out.
C9_InvalidEntryDiscarded ==
    [][(/\ cartStore = "none"
        /\ cartStore' = "ready"
        /\ isLocalStorageAvailable(storageMode)
        /\ storage.kind \in {"object", "array"}
        /\ \/ storage.kind = "object"
           \/ \E i \in 1..Len(storage.elems) :
                \/ ~ProductSchema(storage.elems[i].product)
                \/ ~IsInteger(storage.elems[i].quantity)
                \/ storage.elems[i].quantity <= 0)
        => (/\ hydrations' = 0
            /\ cartModel' = initialModel
            /\ storage' = NoEntry
            /\ ~thrown')]_vars

\* The store was just constructed, the validation diagnostic was logged, the
\* entry is gone and the cart is empty.
C9_Witness ==
    /\ cartOp = "construct"
    /\ lastLog = "validation failed"
    /\ storage = NoEntry
    /\ hydrations = 0
    /\ Items = <<>>

\* C10: with storage unavailable or every write failing, no exception leaves
\* a store operation and the model equals that of a store on working,
\* initially empty storage after the same dispatches.
C10_StorageFailureHarmless ==
    /\ ~thrown
    /\ cartStore = "ready" => cartModel = refModel

\* Every write fails, a valid entry was in storage all along, two products
\* were added and the save has run.
C10_Witness ==
    /\ storageMode = "writefail"
    /\ storage = JsonArray(<<Item(P1, One)>>)
    /\ cartOp = "save"
    /\ Len(Items) = 2
    /\ refModel = cartModel

Pair(model) == <<model.loading, model.error>>

Awaiting == {i \in 1..Len(fetches) : fetches[i].pc = "awaiting"}

\* C4: in every reachable products model, loading = true implies
\* error = null.
C4_LoadingImpliesNoError ==
    productsModel.loading => productsModel.error = NoError

\* A fetch has failed, and a second FETCH_REQUEST has put the store back to
\* loading.
C4_Witness ==
    /\ Len(fetches) = 2
    /\ fetches[1].pc = "done"
    /\ fetches[1].dispatched[2].type = "FETCH_FAILURE"
    /\ fetches[2].pc = "awaiting"
    /\ productsMsg = FetchRequestMsg
    /\ productsModel.loading

\* C5: (loading, error) starts at (false, null); FETCH_REQUEST moves it to
\* (true, null), FETCH_SUCCESS to (false, null), FETCH_FAILURE(e) to
\* (false, e); SET_FILTER, SET_SORT and RESET_FILTER leave it as it is.
C5_LoadingErrorMachine ==
    /\ Pair(productsModel) = <<FALSE, NoError>>
    /\ [][LET msg == productsMsg'
          IN  CASE msg.type = "FETCH_REQUEST" ->
                      Pair(productsModel') = <<TRUE, NoError>>
                [] msg.type = "FETCH_SUCCESS" ->
                      Pair(productsModel') = <<FALSE, NoError>>
                [] msg.type = "FETCH_FAILURE" ->
                      Pair(productsModel') = <<FALSE, <<msg.error>>>>
                [] OTHER -> Pair(productsModel') = Pair(productsModel)]_vars

\* RESET_FILTER was dispatched while loading and the store is still loading.
C5_Witness ==
    /\ productsMsg.type = "RESET_FILTER"
    /\ Pair(productsModel) = <<TRUE, NoError>>

\* C6: a call of fetchProducts dispatches FETCH_REQUEST and, once settled,
\* exactly one more message: FETCH_SUCCESS with the validated body when the
\* body passes the schema, FETCH_FAILURE otherwise; no exception leaves it.
C6_OneResolutionPerFetch ==
    /\ ~fetchThrown
    /\ \A i \in 1..Len(fetches) :
        LET f == fetches[i]
        IN  /\ f.dispatched[1] = FetchRequestMsg
            /\ f.pc = "awaiting" => Len(f.dispatched) = 1
            /\ f.pc = "done" =>
                /\ Len(f.dispatched) = 2
                /\ IF /\ f.response.kind = "fulfilled"
                      /\ \A k \in 1..Len(f.response.body) :
                            f.response.body[k] # PBad
                   THEN f.dispatched[2] = FetchSuccessMsg(f.response.body)
                   ELSE f.dispatched[2].type = "FETCH_FAILURE"

\* One call got a body with an invalid product and another a rejection.
C6_Witness ==
    /\ Len(fetches) = 2
    /\ fetches[1].pc = "done"
    /\ fetches[1].response = Fulfilled(<<P1, PBad>>)
    /\ fetches[2].pc = "done"
    /\ fetches[2].response.kind = "rejected"

\* C7: once every started fetch has settled, the model shows the resolution
\* that landed last: its products and no error after a FETCH_SUCCESS, its
\* error after a FETCH_FAILURE.
C7_LastLandingWins ==
    (fetches # <<>> /\ Awaiting = {}) =>
        /\ ~productsModel.loading
        /\ landed.msg.type = "FETCH_SUCCESS" =>
            /\ productsModel.products = landed.msg.products
            /\ productsModel.error = NoError
        /\ landed.msg.type = "FETCH_FAILURE" =>
            productsModel.error = <<landed.msg.error>>
        /\ landed.msg.type \in {"FETCH_SUCCESS", "FETCH_FAILURE"}

\* Two overlapping fetches: the one started second succeeded first, the one
\* started first failed last, and the model shows that failure.
C7_Witness ==
    /\ Len(fetches) = 2
    /\ Awaiting = {}
    /\ landed.by = 1
    /\ landed.msg = FetchFailureMsg("Network Error")
    /\ fetches[2].dispatched[2] = FetchSuccessMsg(<<P2>>)
    /\ productsModel.products = <<P2>>
    /\ productsModel.error = <<"Network Error">>

\* ------------------------------------------------------- claims on dispatch
\* C12: when a dispatch returns, the store's model is the reducer's result
\* on the model held before the call and the message; a step is one
\* dispatch to one store, also while a save is queued or a fetch awaits, and
\* a save changes no model.
C12_DispatchAppliesReducer ==
    [][/\ (/\ cartStore = "ready"
           /\ cartStore' = "ready"
           /\ cartOp' # "save"
           /\ cartVars' # cartVars)
            => \E msg \in CartMsgs :
                 /\ msg.type = cartOp'
                 /\ cartModel' = update(cartModel, msg)
                 /\ productsVars' = productsVars
       /\ (cartStore' = "ready" /\ cartOp' = "save" /\ storage' # storage)
            => (cartModel' = cartModel /\ productsVars' = productsVars)
       /\ productsVars' # productsVars
            => /\ productsModel' = productsUpdate(productsModel, productsMsg')
               /\ cartVars' = cartVars]_vars

\* Two cart dispatches were made with the first save still queued (the entry
\* is the one loaded), and SET_SORT was dispatched while a fetch awaits.
C12_Witness ==
    /\ storage = JsonArray(<<Item(P2, One), Item(P1, 2 * One)>>)
    /\ hydrations = 1
    /\ savePending
    /\ cartOp = "DECREMENT_ITEM"
    /\ Items = <<Item(P1, One)>>
    /\ Awaiting # {}
    /\ productsMsg = [type |-> "SET_SORT", sort |-> "price-desc"]
    /\ productsModel.loading
    /\ productsModel.currentSort = "price-desc"

\* ------------------------------------------------ claims on the cart reducer
\* C13: ADD_ITEM for each product of a set, from the empty cart, followed by
\* REMOVE_ITEM for each of their identifiers, in any order, gives the empty
\* cart.
C13_AddThenRemoveAllIsEmpty ==
    (/\ calc.op = "add-remove"
     /\ calc.phase = "removing"
     /\ calc.removed = IdsOf(calc.added))
        => calc.model = initialModel

\* Three products were added and their identifiers removed, the one added
\* first removed last.
C13_Witness ==
    /\ calc.op = "add-remove"
    /\ calc.phase = "removing"
    /\ calc.added = {P1, P2, P4}
    /\ calc.removed = {"1", "2", "4"}
    /\ calc.model.items = <<>>

\* C14: in every cart the store reaches with whole-number quantities, for
\* every identifier in the cart, INCREMENT_ITEM followed by DECREMENT_ITEM
\* gives back the item sequence: each item keeps its quantity and every
\* other item is unchanged.
C14_IncrementThenDecrementRestores ==
    \A productId \in ProductIds :
        HasItem(Items, productId) =>
            LET incremented == update(cartModel, [type |-> "INCREMENT_ITEM",
                                                  productId |-> productId])
                decremented == update(incremented, [type |-> "DECREMENT_ITEM",
                                                    productId |-> productId])
            IN  decremented.items = Items

\* -------------------------------------------------- claims on calculations
\* C15: the read surface agrees with the current model: itemCount is the sum
\* of the quantities, subtotal the sum of price * quantity, total is
\* subtotal + tax, isEmpty holds exactly when there are no items; two units
\* at 1999 and one at 2999 give subtotal 6997, tax 700, total 7697 and
\* itemCount 3.
C15_ReadSurfaceConsistent ==
    LET n == Len(Items)
        Quantity[i \in 0..n] ==
            IF i = 0 THEN 0 ELSE Quantity[i - 1] + Items[i].quantity
        Amount[i \in 0..n] ==
            IF i = 0 THEN 0
            ELSE Amount[i - 1] + Items[i].product.price * Items[i].quantity
    IN  /\ itemCount = Quantity[n]
        /\ subtotal = Amount[n]
        /\ total = subtotal + tax
        /\ isEmpty <=> Items = <<>>
        /\ Items = <<Item(P1, 2 * One), Item(P2, One)>> =>
            /\ subtotal = One * 6997
            /\ tax = One * 700
            /\ total = One * 7697
            /\ itemCount = One * 3

\* Product 1 at 1999 was added twice and product 2 at 2999 once.
C15_Witness ==
    /\ cartOp = "ADD_ITEM"
    /\ hydrations = 0
    /\ Items = <<Item(P1, 2 * One), Item(P2, One)>>
    /\ total = One * 7697
    /\ ~isEmpty

\* C16: for a non-negative integer subtotal s, calculateTax(s) is s * 0.1
\* rounded to the nearest integer with a half rounded up, which is
\* floor((s + 5) / 10) (6997 gives 700, 665 gives 67); and it is not below
\* the tax of any smaller subtotal.
C16_TaxRoundsHalfUp ==
    (calc.op = "tax" /\ calc.tax # <<>>) =>
        LET s == calc.subtotal
            t == calc.tax[1]
        IN  /\ t = One * ((s + 5) \div 10)
            /\ 10 * t - One * s <= One * 5
            /\ One * s - 10 * t < One * 5
            /\ s = 6997 => t = One * 700
            /\ s = 665 => t = One * 67
            /\ s > 0 => calculateTax(One * (s - 1)) <= t

\* The tax of 665 was computed: 66.5 rounds up to 67.
C16_Witness ==
    /\ calc.op = "tax"
    /\ calc.subtotal = 665
    /\ calc.tax = <<One * 67>>

\* ------------------------------------------- claims on the products reducer
\* C17: FETCH_REQUEST and FETCH_FAILURE leave products as it is; products
\* changes on a FETCH_SUCCESS only, to the products of that message, so the
\* products of the last success stay through later requests and failures.
C17_OnlySuccessChangesProducts ==
    [][/\ productsMsg'.type \in {"FETCH_REQUEST", "FETCH_FAILURE"}
            => productsModel'.products = productsModel.products
       /\ productsModel'.products # productsModel.products
            => /\ productsMsg'.type = "FETCH_SUCCESS"
               /\ productsModel'.products = productsMsg'.products]_vars

\* A fetch brought two products; a second fetch was started and failed, and
\* the two products are still there.
C17_Witness ==
    /\ Len(fetches) = 2
    /\ fetches[1].dispatched = <<FetchRequestMsg, FetchSuccessMsg(<<P1, P2>>)>>
    /\ fetches[2].pc = "done"
    /\ landed = [by |-> 2, msg |-> FetchFailureMsg("Network Error")]
    /\ productsMsg.type = "FETCH_FAILURE"
    /\ productsModel.products = <<P1, P2>>
    /\ productsModel.error = <<"Network Error">>

\* C18: RESET_FILTER puts currentFilter and currentSort back to their
\* initial values and leaves products, loading and error as they are; a
\* second RESET_FILTER changes nothing.
C18_ResetRestoresDefaults ==
    [][productsMsg'.type = "RESET_FILTER" =>
        /\ productsModel' =
              [productsModel EXCEPT
                  !.currentFilter = Filter(<<>>, <<"all">>, <<FALSE>>),
                  !.currentSort = "name-asc"]
        /\ productsUpdate(productsModel', productsMsg') = productsModel']_vars

\* RESET_FILTER was dispatched on a model with products and an error while
\* a fetch awaits; the filter and the sort are the initial ones.
C18_Witness ==
    /\ productsMsg.type = "RESET_FILTER"
    /\ productsModel.products # <<>>
    /\ productsModel.error # NoError
    /\ productsModel.currentFilter = Filter(<<>>, <<"all">>, <<FALSE>>)
    /\ productsModel.currentSort = "name-asc"
    /\ Awaiting # {}

\* C19: SET_FILTER makes currentFilter the given filter, with nothing kept
\* of the previous one, and SET_SORT makes currentSort the given sort; each
\* leaves every other field as it is.
C19_SetReplaces ==
    [][/\ productsMsg'.type = "SET_FILTER" =>
            productsModel' =
                [productsModel EXCEPT !.currentFilter = productsMsg'.filter]
       /\ productsMsg'.type = "SET_SORT" =>
            productsModel' =
                [productsModel EXCEPT !.currentSort = productsMsg'.sort]]_vars

\* SET_FILTER with the initial filter was dispatched on a model with
\* products, an error and another sort: the filter is the given one and the
\* rest is still there.
C19_Witness ==
    /\ productsMsg = [type |-> "SET_FILTER",
                      filter |-> Filter(<<>>, <<"all">>, <<FALSE>>)]
    /\ productsModel.currentFilter.search = <<>>
    /\ productsModel.currentSort = "price-desc"
    /\ productsModel.products = <<P2>>
    /\ productsModel.error # NoError

\* ------------------------------------------- products store read surface
\* The store's computed filteredProducts, with the sort left out.
filteredProducts_FilterOnly ==
    filterProducts(productsModel.products, productsModel.currentFilter)

filteredProducts ==
    sortProducts(filterProducts(productsModel.products,
                                productsModel.currentFilter),
                 productsModel.currentSort)

\* C20: filteredProducts is the current products filtered by the current
\* filter and then sorted by the current sort: it holds exactly the
\* products of the model that pass the filter of the model, each once, in
\* the order of the model's sort, products the sort does not tell apart in
\* the order they have in products.
C20_FilteredProductsFresh ==
    LET shown == filteredProducts
        all == productsModel.products
        Place(p) == CHOOSE i \in 1..Len(all) : all[i] = p
    IN  /\ {shown[i] : i \in 1..Len(shown)}
              = {all[i] : i \in {k \in 1..Len(all) :
                    PassesFilter(all[k], productsModel.currentFilter)}}
        /\ \A i, j \in 1..Len(shown) : shown[i] = shown[j] => i = j
        /\ \A i, j \in 1..Len(shown) :
              i < j =>
                LET c == Compare(productsModel.currentSort, shown[i], shown[j])
                IN  c < 0 \/ (c = 0 /\ Place(shown[i]) < Place(shown[j]))

\* Two products were fetched, then the sort was set to price-desc: the
\* dearer product, fetched second, is shown first.
C20_Witness ==
    /\ productsMsg = [type |-> "SET_SORT", sort |-> "price-desc"]
    /\ productsModel.products = <<P1, P2>>
    /\ productsModel.currentFilter = Filter(<<>>, <<"all">>, <<FALSE>>)
    /\ filteredProducts = <<P2, P1>>

\* ------------------------------------- claims on filterProducts, sortProducts
\* Whether a text has no character other than blanks.
IsBlank(str) == \A i \in 1..Len(str) : SubSeq(str, i, i) = " "

\* C21: filterProducts returns exactly the products of its input that
\* satisfy every enabled test, in the order of the input, and leaves the
\* input as it was.  The search test (the text in the name or description,
\* upper and lower case alike) is off when the text is absent, empty or
\* blank, the category test when the category is absent or "all", the price,
\* rating and stock tests when their criterion is absent (stock also when
\* inStock is false).
C21_FilterKeepsExactlyMatches ==
    calc.op = "catalog" /\ calc.called = "filterProducts" =>
        LET in == calc.products
            f == calc.filter
            Wanted(p) ==
                /\ (f.search # <<>> /\ ~IsBlank(f.search[1])) =>
                      \E text \in {p.name, p.description} :
                        includes(toLowerCase(text), toLowerCase(f.search[1]))
                /\ (f.category # <<>> /\ f.category # <<"all">>) =>
                      <<p.category>> = f.category
                /\ \A r \in {f.priceRange[i] : i \in 1..Len(f.priceRange)} :
                      r.min <= p.price /\ p.price <= r.max
                /\ \A m \in {f.minRating[i] : i \in 1..Len(f.minRating)} :
                      RatingOrDefault(p) >= m
                /\ f.inStock = <<TRUE>> => p.stock > 0
            kept == {i \in 1..Len(in) : Wanted(in[i])}
            \* the number of kept places up to place i
            Rank[i \in 0..Len(in)] ==
                IF i = 0 THEN 0
                ELSE Rank[i - 1] + (IF i \in kept THEN 1 ELSE 0)
        IN  /\ Len(calc.out) = Cardinality(kept)
            /\ \A i \in kept : calc.out[Rank[i]] = in[i]
            /\ Len(calc.out) <= Len(in)
            /\ calc.after = in

\* The search "NOV" kept the novel and the notebook (by its description) and
\* dropped the headphones between them.
C21_Witness ==
    /\ calc.op = "catalog"
    /\ calc.called = "filterProducts"
    /\ calc.filter = Filter(<<"NOV">>, <<>>, <<>>)
    /\ calc.products = <<P2, P1, P5>>
    /\ calc.out = <<P2, P5>>

\* How many places of an array hold the product p.
Occurrences(products, p) ==
    Cardinality({i \in 1..Len(products) : products[i] = p})

\* C22: for every sort key, what sortProducts returns is a permutation of
\* its input (as many items, each product as often as in the input), and the
\* input array holds the same products in the same order after the call.
C22_SortIsPermutation ==
    calc.op = "catalog" /\ calc.called = "sortProducts" =>
        /\ Len(calc.out) = Len(calc.products)
        /\ \A p \in CatalogPool :
              Occurrences(calc.out, p) = Occurrences(calc.products, p)
        /\ calc.after = calc.products

\* Three products were sorted by name, descending: the output is in another
\* order than the input, which is as it was.
C22_Witness ==
    /\ calc.op = "catalog"
    /\ calc.called = "sortProducts"
    /\ calc.sort = "name-desc"
    /\ calc.products = <<P4, P2, P1>>
    /\ calc.out = <<P2, P4, P1>>
    /\ calc.after = <<P4, P2, P1>>

\* C23: price-asc gives a sequence non-decreasing in price, price-desc one
\* non-increasing in price, and in both the products of equal price come in
\* the order they have in the input.
C23_PriceOrderStable ==
    (/\ calc.op = "catalog"
     /\ calc.called = "sortProducts"
     /\ calc.sort \in {"price-asc", "price-desc"}) =>
        LET out == calc.out
            in == calc.products
            prices == {p.price : p \in CatalogPool}
            \* the products of one price, in the order of the array
            AtPrice(products, price) ==
                LET Same(p) == p.price = price
                IN  SelectSeq(products, Same)
        IN  /\ \A i \in 1..(Len(out) - 1) :
                  IF calc.sort = "price-asc"
                  THEN out[i].price <= out[i + 1].price
                  ELSE out[i].price >= out[i + 1].price
            /\ \A price \in prices : AtPrice(out, price) = AtPrice(in, price)

\* The notebook and the headphones cost the same and the notebook comes
\* first in the input: sorted by price, ascending, it still comes first.
C23_Witness ==
    /\ calc.op = "catalog"
    /\ calc.called = "sortProducts"
    /\ calc.sort = "price-asc"
    /\ calc.products = <<P2, P5, P1>>
    /\ calc.out = <<P5, P1, P2>>

\* ------------------------------------------------ claims on cart quantities
\* C24: every quantity in the cart is a whole number: an UPDATE_QUANTITY
\* whose quantity is not an integer leaves the cart as it is, so no cart the
\* store reaches holds an item with a quantity that is not an integer.
C24_QuantitiesAreWhole ==
    \A i \in 1..Len(Items) : IsInteger(Items[i].quantity)

\* ------------------------------------------------- claims on the reducers
\* C25: a call of either reducer returns a model object other than its
\* input, unless the message names an identifier the cart does not hold and
\* changes nothing; when the cart reducer returns a new model its items
\* array is a new array too; the input model is as it was after the call.
C25_ReducersReturnNewModel ==
    calc.op = "reducer" /\ calc.called # "none" =>
        /\ calc.sameModel =>
            /\ calc.called = "cart"
            /\ "productId" \in DOMAIN calc.msg
            /\ ~HasItem(calc.model.items, calc.msg.productId)
            /\ calc.result = calc.model
        /\ (calc.called = "cart" /\ ~calc.sameModel) => ~calc.sameItems
        /\ calc.after = calc.model

\* REMOVE_ITEM for an identifier the cart does not hold: the result equals
\* the input and is a new object all the same.
C25_Witness ==
    /\ calc.op = "reducer"
    /\ calc.called = "cart"
    /\ calc.msg = [type |-> "REMOVE_ITEM", productId |-> "2"]
    /\ calc.model = [items |-> <<Item(P1, One)>>]
    /\ calc.result = calc.model
    /\ ~calc.sameModel
    /\ ~calc.sameItems

\* --------------------------------------------- claims on the fetch effect
\* C26: while only the fetch effect dispatches lifecycle messages, loading
\* is true only while a call of fetchProducts is awaiting its response; with
\* no call awaiting, loading is false, also after overlapping calls.
C26_LoadingMeansFetchInFlight ==
    productsModel.loading => Awaiting # {}

\* The first call has settled, the second, started after that, is awaiting,
\* and loading is true.
C26_Witness ==
    /\ Len(fetches) = 2
    /\ fetches[1].pc = "done"
    /\ fetches[2].pc = "awaiting"
    /\ productsModel.loading

\* ------------------------------------------------------- claims on saving
\* C27: a save leaves the model alone and writes the item sequence the model
\* holds when the save runs, whatever number of dispatches queued it (on a
\* storage that refuses the write the entry stays as it was); between saves
\* a ready store's dispatches leave the entry alone, so the entry never
\* returns to an older cart; after a save on working storage the entry is
\* the model's item sequence.
C27_SaveWritesCurrentItems ==
    /\ [][(cartStore = "ready" /\ cartStore' = "ready") =>
            IF savePending /\ ~savePending'
            THEN /\ cartModel' = cartModel
                 /\ storage' \in {storage, JSONstringify(cartModel.items)}
                 /\ storageMode = "ok" =>
                        storage' = JSONstringify(cartModel.items)
            ELSE storage' = storage]_vars
    /\ []((cartOp = "save" /\ storageMode = "ok") =>
            storage = JSONstringify(Items))

\* The store found one unit of product 1 under the key, the cart now holds
\* product 1 twice over and product 2, and a save has just written these
\* two items over the older entry.
C27_Witness ==
    /\ cartOp = "save"
    /\ storageMode = "ok"
    /\ hydrations = 1
    /\ Len(Items) = 2
    /\ Items[1] = Item(P1, 2 * One)
    /\ Items[2].product = P2
    /\ storage = JSONstringify(Items)

\* C28: a store dispatches HYDRATE_FROM_STORAGE at most once, and only while
\* it is being constructed: construction starts from the initial model, ends
\* with the stored items if it hydrated and with the initial model if not,
\* and no later step of the store is a hydration, so items that callers'
\* dispatches produced are never replaced by stored ones.
C28_HydratesOnceAtConstruction ==
    /\ [](hydrations \in {0, 1})
    /\ [][(cartStore = "none" /\ cartStore' = "ready") =>
            /\ cartModel = initialModel
            /\ cartModel' = IF hydrations' = 1
                            THEN [items |-> storage.elems]
                            ELSE initialModel]_vars
    /\ [][(cartStore = "ready" /\ cartStore' = "ready") =>
            /\ hydrations' = hydrations
            /\ \/ cartModel' = cartModel
               \/ \E msg \in CartMsgs : cartModel' = update(cartModel, msg)]_vars

\* The store hydrated product 1 from storage; a caller then added product 2
\* and the cart holds both while the entry still holds product 1 alone.
C28_Witness ==
    /\ cartStore = "ready"
    /\ hydrations = 1
    /\ cartOp = "ADD_ITEM"
    /\ savePending
    /\ storage = JsonArray(<<Item(P1, One)>>)
    /\ Items = <<Item(P1, One), Item(P2, One)>>

C30_AddItemAppendsOrIncrements ==
    (calc.op = "reducer" /\ calc.called = "cart"
        /\ calc.msg.type = "ADD_ITEM") =>
        LET old == calc.model.items
            new == calc.result.items
            p == calc.msg.product
        IN  /\ IF \A i \in 1..Len(old) : old[i].product.id # p.id
               THEN /\ Len(new) = Len(old) + 1
                    /\ new[Len(new)] = [product |-> p, quantity |-> One]
               ELSE Len(new) = Len(old)
            /\ \A i \in 1..Len(old) :
                  /\ new[i].product = old[i].product
                  /\ new[i].quantity =
                        IF old[i].product.id = p.id
                        THEN old[i].quantity + One
                        ELSE old[i].quantity

\* The cart holds product 2 and, second, product 1 at its earlier price; the
\* product added has identifier 1 and another price: the second item keeps
\* the stored product and has quantity 2, the first is as before.
C30_Witness ==
    /\ calc.op = "reducer"
    /\ calc.called = "cart"
    /\ calc.msg = [type |-> "ADD_ITEM", product |-> P1]
    /\ calc.model.items = <<Item(P2, One), Item(P1b, One)>>
    /\ calc.result.items = <<Item(P2, One), Item(P1b, 2 * One)>>
    /\ P1b.price # P1.price

\* ------------------------------------------- claims on the other messages
\* C31: REMOVE_ITEM, UPDATE_QUANTITY with any quantity, INCREMENT_ITEM and
\* DECREMENT_ITEM for an identifier no item of the cart has return the item
\* sequence as it was: the same items with the same quantities in the same
\* order, and no item more.
C31_AbsentIdentifierChangesNothing ==
    (/\ calc.op = "reducer"
     /\ calc.called = "cart"
     /\ calc.msg.type \in {"REMOVE_ITEM", "UPDATE_QUANTITY",
                           "INCREMENT_ITEM", "DECREMENT_ITEM"}
     /\ ~HasItem(calc.model.items, calc.msg.productId))
        => calc.result.items = calc.model.items

\* UPDATE_QUANTITY to 2 for identifier 2 on a cart that holds one unit of
\* product 1 alone: the cart is as before.
C31_Witness ==
    /\ calc.op = "reducer"
    /\ calc.called = "cart"
    /\ calc.msg = [type |-> "UPDATE_QUANTITY", productId |-> "2",
                   quantity |-> 2 * One]
    /\ calc.model.items = <<Item(P1, One)>>
    /\ calc.result.items = <<Item(P1, One)>>

\* C32: UPDATE_QUANTITY with a quantity of zero or less returns the cart
\* that REMOVE_ITEM returns for the same identifier: no item with the
\* identifier is left, and the items with other identifiers are all there,
\* unchanged and in their order.
C32_NonPositiveQuantityRemoves ==
    (/\ calc.op = "reducer"
     /\ calc.called = "cart"
     /\ calc.msg.type = "UPDATE_QUANTITY"
     /\ calc.msg.quantity <= 0)
        => LET old == calc.model.items
               new == calc.result.items
               Other(item) == item.product.id # calc.msg.productId
           IN  /\ calc.result =
                     update(calc.model, [type |-> "REMOVE_ITEM",
                                         productId |-> calc.msg.productId])
               /\ ~HasItem(new, calc.msg.productId)
               /\ new = SelectSeq(old, Other)

\* UPDATE_QUANTITY to minus one for identifier 1 on a cart that holds
\* product 1 and product 2: product 2 alone is left.
C32_Witness ==
    /\ calc.op = "reducer"
    /\ calc.called = "cart"
    /\ calc.msg = [type |-> "UPDATE_QUANTITY", productId |-> "1",
                   quantity |-> -One]
    /\ calc.model.items = <<Item(P1, 2 * One), Item(P2, One)>>
    /\ calc.result.items = <<Item(P2, One)>>

\* C33: UPDATE_QUANTITY with a whole quantity of 1 or more, for an
\* identifier the cart holds, returns a cart of the same length in which an
\* item with the identifier has exactly the given quantity, whatever it had
\* before, at its position and with its product, and every other item is as
\* before; the same message applied to the result changes nothing more.
C33_UpdateQuantitySetsExactly ==
    (/\ calc.op = "reducer"
     /\ calc.called = "cart"
     /\ calc.msg.type = "UPDATE_QUANTITY"
     /\ IsInteger(calc.msg.quantity)
     /\ calc.msg.quantity >= One
     /\ HasItem(calc.model.items, calc.msg.productId))
        => LET old == calc.model.items
               new == calc.result.items
           IN  /\ Len(new) = Len(old)
               /\ \A i \in 1..Len(old) :
                     /\ new[i].product = old[i].product
                     /\ new[i].quantity =
                           IF old[i].product.id = calc.msg.productId
                           THEN calc.msg.quantity
                           ELSE old[i].quantity
               /\ update(calc.result, calc.msg) = calc.result

\* UPDATE_QUANTITY to 1 for identifier 1 on a cart that holds two units of
\* product 1 and, after it, one of product 2: product 1 is first with
\* quantity 1, product 2 is as before.
C33_Witness ==
    /\ calc.op = "reducer"
    /\ calc.called = "cart"
    /\ calc.msg = [type |-> "UPDATE_QUANTITY", productId |-> "1",
                   quantity |-> One]
    /\ calc.model.items = <<Item(P1, 2 * One), Item(P2, One)>>
    /\ calc.result.items = <<Item(P1, One), Item(P2, One)>>

\* C34: for an identifier the cart holds, with c the quantity of the item
\* found for it, INCREMENT_ITEM returns the cart that UPDATE_QUANTITY to
\* c + 1 returns and DECREMENT_ITEM the cart that UPDATE_QUANTITY to c - 1
\* returns; DECREMENT_ITEM at quantity 1 leaves no item with the identifier
\* and every other item in place.
C34_StepsAreUpdateQuantity ==
    (/\ calc.op = "reducer"
     /\ calc.called = "cart"
     /\ calc.msg.type \in {"INCREMENT_ITEM", "DECREMENT_ITEM"}
     /\ HasItem(calc.model.items, calc.msg.productId))
        => LET id == calc.msg.productId
               c == FindItem(calc.model.items, id).quantity
               q == IF calc.msg.type = "INCREMENT_ITEM" THEN c + One
                    ELSE c - One
               Other(item) == item.product.id # id
           IN  /\ calc.result =
                     update(calc.model, [type |-> "UPDATE_QUANTITY",
                                         productId |-> id, quantity |-> q])
               /\ (calc.msg.type = "DECREMENT_ITEM" /\ c = One) =>
                     calc.result.items = SelectSeq(calc.model.items, Other)
               /\ q > 0 => FindItem(calc.result.items, id).quantity = q

\* DECREMENT_ITEM for identifier 1 on a cart that holds product 2 and one
\* unit of product 1: product 2 alone is left.
C34_Witness ==
    /\ calc.op = "reducer"
    /\ calc.called = "cart"
    /\ calc.msg = [type |-> "DECREMENT_ITEM", productId |-> "1"]
    /\ calc.model.items = <<Item(P2, One), Item(P1b, One)>>
    /\ calc.result.items = <<Item(P2, One)>>

\* ------------------------------------------------ claims on the two stores
\* C35: a step in which FETCH_REQUEST, FETCH_SUCCESS or FETCH_FAILURE is
\* dispatched, by the fetch effect or by a caller, leaves currentFilter and
\* currentSort as they were, so what was set before or during a fetch is
\* in effect after it.
C35_FetchKeepsFilterAndSort ==
    [][productsMsg'.type \in {"FETCH_REQUEST", "FETCH_SUCCESS", "FETCH_FAILURE"}
        => /\ productsModel'.currentFilter = productsModel.currentFilter
           /\ productsModel'.currentSort = productsModel.currentSort]_vars

\* The one fetch made has delivered its products as the last dispatch, and
\* the model holds a filter and a sort that are not the initial ones.
C35_Witness ==
    /\ Len(fetches) = 1
    /\ fetches[1].pc = "done"
    /\ productsMsg = FetchSuccessMsg(<<P1, P2>>)
    /\ landed.by = 1
    /\ productsModel.products = <<P1, P2>>
    /\ productsModel.currentFilter = Filter(<<"novel">>, <<>>, <<TRUE>>)
    /\ productsModel.currentSort = "price-desc"

\* C36: a step of the products store (a dispatch to it, the start or the
\* settling of a fetch) leaves the cart's model, its queued save and its
\* storage entry as they were, and a step of the cart store (construction,
\* a dispatch, a save) leaves the products model and its fetches as they
\* were, however the steps of the two stores are interleaved.
C36_StoresOwnTheirModels ==
    [][/\ productsVars' # productsVars
            => /\ cartModel' = cartModel
               /\ savePending' = savePending
               /\ storage' = storage
       /\ cartVars' # cartVars
            => /\ productsModel' = productsModel
               /\ fetches' = fetches]_vars

\* A fetch started and delivered its products while the cart store, which
\* had loaded two items, removed one and saved the other.
C36_Witness ==
    /\ cartOp = "save"
    /\ hydrations = 1
    /\ Len(Items) = 1
    /\ storage = JSONstringify(Items)
    /\ Len(fetches) = 1
    /\ fetches[1].pc = "done"
    /\ productsModel.products = <<P1, P2>>
    /\ ~productsModel.loading

\* The items, and the message, with the stock of every product set to s.
Restocked(items, s) ==
    [i \in 1..Len(items) |-> [items[i] EXCEPT !.product.stock = s]]

RestockedMsg(msg, s) ==
    IF "product" \in DOMAIN msg THEN [msg EXCEPT !.product.stock = s] ELSE msg

\* C37: the result of ADD_ITEM, INCREMENT_ITEM and UPDATE_QUANTITY does not
\* depend on any product's stock: with every stock replaced by another
\* number the reducer returns the same items (with that stock), and
\* ADD_ITEM and INCREMENT_ITEM raise the quantity of the item found by 1
\* also when that takes it past the stock.
C37_ReducerIgnoresStock ==
    (/\ calc.op = "reducer"
     /\ calc.called = "cart"
     /\ calc.msg.type \in {"ADD_ITEM", "INCREMENT_ITEM", "UPDATE_QUANTITY"})
        => LET old == calc.model.items
               new == calc.result.items
               id == IF calc.msg.type = "ADD_ITEM" THEN calc.msg.product.id
                     ELSE calc.msg.productId
           IN  /\ \A s \in {0, 1, 5} :
                     update([items |-> Restocked(old, s)],
                            RestockedMsg(calc.msg, s)).items
                        = Restocked(new, s)
               /\ (calc.msg.type # "UPDATE_QUANTITY" /\ HasItem(old, id)) =>
                     FindItem(new, id).quantity
                        = FindItem(old, id).quantity + One

\* INCREMENT_ITEM on a cart that holds two units of product 2, of which
\* none is in stock: the cart holds three.
C37_Witness ==
    /\ calc.op = "reducer"
    /\ calc.called = "cart"
    /\ calc.msg = [type |-> "INCREMENT_ITEM", productId |-> "2"]
    /\ calc.model.items = <<Item(P2, 2 * One)>>
    /\ calc.result.items = <<Item(P2, 3 * One)>>
    /\ P2.stock = 0

\* ------------------------------------------------------- claims on ratings
\* The rating of a product with a missing rating read as 0.
EffectiveRating(p) == IF p.rating = <<>> THEN 0 ELSE p.rating[1]

\* C38: a product without a rating counts as rated 0: filterProducts with a
\* minimum rating keeps only products whose rating, 0 when missing, is at
\* least the minimum, so one without a rating only when the minimum is 0
\* or less, and with the minimum as the only criterion it keeps all of
\* those; sortProducts by rating-desc gives a sequence non-increasing in
\* that rating, and the products of one rating, an unrated product and one
\* rated 0 among them, come in the order they have in the input.
C38_MissingRatingIsZero ==
    /\ (/\ calc.op = "catalog"
        /\ calc.called = "filterProducts"
        /\ calc.filter.minRating # <<>>) =>
          LET min == calc.filter.minRating[1]
              Rated(p) == EffectiveRating(p) >= min
          IN  /\ \A i \in 1..Len(calc.out) :
                    /\ EffectiveRating(calc.out[i]) >= min
                    /\ calc.out[i].rating = <<>> => min <= 0
              /\ calc.filter = [Filter(<<>>, <<>>, <<>>)
                                  EXCEPT !.minRating = <<min>>]
                    => calc.out = SelectSeq(calc.products, Rated)
    /\ (/\ calc.op = "catalog"
        /\ calc.called = "sortProducts"
        /\ calc.sort = "rating-desc") =>
          LET ratings == {EffectiveRating(p) : p \in CatalogPool}
              AtRating(products, rating) ==
                  LET Same(p) == EffectiveRating(p) = rating
                  IN  SelectSeq(products, Same)
          IN  /\ \A i \in 1..(Len(calc.out) - 1) :
                    EffectiveRating(calc.out[i])
                        >= EffectiveRating(calc.out[i + 1])
              /\ \A rating \in ratings :
                    AtRating(calc.out, rating) = AtRating(calc.products, rating)

\* An unrated product, one rated 4.5 and one rated 0, sorted by rating: the
\* rated one comes first, the unrated one stays before the one rated 0.
C38_Witness ==
    /\ calc.op = "catalog"
    /\ calc.called = "sortProducts"
    /\ calc.sort = "rating-desc"
    /\ calc.products = <<P2, P1, P6>>
    /\ calc.out = <<P1, P2, P6>>

\* ----------------------------------------- claims on the earlier reducer
\* C39: in the reducer whose items carry a subtotal, after any sequence of
\* ADD_ITEM, REMOVE_ITEM, UPDATE_QUANTITY, INCREMENT_ITEM, DECREMENT_ITEM
\* and CLEAR_CART from the empty cart, the subtotal of every item is the
\* price of its stored product times its quantity.
C39_StoredSubtotalIsPriceTimesQuantity ==
    calc.op = "features" =>
        \A i \in 1..Len(calc.model.items) :
            calc.model.items[i].subtotal =
                calc.model.items[i].product.price
                    * calc.model.items[i].quantity

\* Product 1 was added at 1999, and ADD_ITEM with the same identifier at
\* 2499 has just raised it to two units: the subtotal is twice 1999.
C39_Witness ==
    /\ calc.op = "features"
    /\ calc.msg = [type |-> "ADD_ITEM", product |-> P1b]
    /\ Len(calc.model.items) = 1
    /\ calc.model.items[1].product = P1
    /\ calc.model.items[1].quantity = 2 * One
    /\ calc.model.items[1].subtotal = 2 * One * 1999

\* ---------------------------------------------------------- claims on order
\* C40: ADD_ITEM, REMOVE_ITEM, UPDATE_QUANTITY, INCREMENT_ITEM and
\* DECREMENT_ITEM do not reorder the cart: the products whose identifier is
\* in the cart both before and after the message come in the same order
\* before and after.
C40_MessagesKeepOrder ==
    (/\ calc.op = "reducer"
     /\ calc.called = "cart"
     /\ calc.msg.type \in {"ADD_ITEM", "REMOVE_ITEM", "UPDATE_QUANTITY",
                           "INCREMENT_ITEM", "DECREMENT_ITEM"})
        => LET old == calc.model.items
               new == calc.result.items
               Ids(items) == {items[i].product.id : i \in 1..Len(items)}
               InBoth(item) == item.product.id \in (Ids(old) \cap Ids(new))
               ProductsOf(items) ==
                   [i \in 1..Len(items) |-> items[i].product]
           IN  ProductsOf(SelectSeq(old, InBoth))
                 = ProductsOf(SelectSeq(new, InBoth))

\* REMOVE_ITEM of the middle item of three: the first and the last are
\* left, the first before the last.
C40_Witness ==
    /\ calc.op = "reducer"
    /\ calc.called = "cart"
    /\ calc.msg = [type |-> "REMOVE_ITEM", productId |-> "1"]
    /\ calc.model.items = <<Item(P4, One), Item(P1, One), Item(P2, 2 * One)>>
    /\ calc.result.items = <<Item(P4, One), Item(P2, 2 * One)>>

====
